---- MODULE Spec2Model ----
(***************************************************************************)
(* Refresh-token lifecycle of brainflash-server: login, refresh (rotation) *)
(* and logout handlers of app/routes/auth.py and app/routes/refresh.py     *)
(* running as concurrent requests over one committed refresh_tokens table. *)
(* Every await of a handler is a step boundary; what a handler stages in   *)
(* its session becomes visible to the others only at session.commit().     *)
(*                                                                         *)
(* Flashcard aggregate: the deck, flashcard, audio-file and study-session  *)
(* handlers of app/routes/decks.py, app/routes/flashcards.py,              *)
(* app/routes/flashcards_fsrs.py and app/routes/audio.py over the          *)
(* committed tables of app/database.py, one request at a time; the rows a  *)
(* create_flashcard call has flushed stay in its session until its commit. *)
(***************************************************************************)
EXTENDS Integers, Sequences, FiniteSets, TLC

(* ---------------------------------------------------------------- bounds *)
\* raw refresh tokens secrets.token_urlsafe can return (1..MaxRaw)
MaxRaw == 3
\* the wall clock stops at MaxNow (days)
MaxNow == 45
\* days that pass on one step of the clock
ClockStep == 15
\* decks, flashcards and audio files ever inserted (ids are never reused)
MaxDecks == 2
MaxCards == 1
MaxAudio == 3
\* the monotonic clock of the rate limiter stops here, and a key is not
\* counted beyond MaxCount within one window
MaxTimer == 5
MaxCount == 4

(* ------------------------------------------------------------- constants *)
REFRESH_TOKEN_LIFETIME_DAYS == 30

\* a falsy refresh_token: no cookie (None) or an empty string
NoToken == 0
\* scalar_one_or_none() found nothing
None == 0

Users == {"u1"}
Procs == {1, 2}
RawTokens == 1..MaxRaw
\* the two modules that define /auth/refresh and /auth/logout
Routes == {"refresh.py", "auth.py"}

\* hashlib.sha256(raw.encode()).hexdigest(): one-way, collision-free here
Hash(raw) == <<"sha256", raw>>

VARIABLES
  now,             \* datetime.now(), in days
  refresh_tokens,  \* committed rows of RefreshToken; the id is the index
  parent,          \* history: the row a refresh presented when it inserted row i (0: login)
  pc,              \* where each request is in its handler
  req,             \* the handler's parameters and locals while it runs
  resp,            \* the response a finished request gave
  lookup,          \* history: what the request's lookup met (see Classify)
  cookie_jar,      \* the refresh_token cookie the client holds (NoToken: none)
  body_token       \* the refresh_token of the last response body the client got

VARIABLES
  flashcard_decks,        \* committed rows of FlashcardDeck, by id
  flashcards,             \* committed rows of Flashcard, by id
  flashcard_discussions,  \* committed rows of FlashcardDiscussion, by flashcard_id
  flashcard_final_cards,  \* committed rows of FlashcardFinalCard, by flashcard_id
  flashcard_fsrs,         \* committed rows of FlashcardFSRS, by flashcard_id
  audio_files,            \* committed rows of AudioFile, by id
  study_sessions,         \* committed rows of StudySession, by id
  last_id,                \* the ids handed out so far: uuid4 values and the audio_files sequence
  session,                \* the running create_flashcard: payload and flushed rows
  response,               \* the answer to the last deck, flashcard or audio request
  updates                 \* the update_flashcard calls that run side by side, each
                          \* with its payload, its own session and its answer

tables == <<flashcard_decks, flashcards, flashcard_discussions, flashcard_final_cards,
            flashcard_fsrs, audio_files, study_sessions>>
card_vars == <<tables, last_id, session, response, updates>>
client_vars == <<cookie_jar, body_token>>
auth_vars == <<now, refresh_tokens, parent, pc, req, resp, lookup, client_vars>>

VARIABLES
  timer,         \* time.monotonic(), the timer of the TTLCache, in seconds
  cache,         \* self.cache: key -> [value, expires], expired items until purged
  rl_pc,         \* where each request is in dispatch
  rl_req,        \* the key and the count a request holds after the locked section
  rl_resp,       \* the response a request got
  recent,        \* history: per key, the times within the last window at which
                 \* a request was counted that is forwarded
  window_start,  \* history: per key, when its counter last went from nothing to 1
  last_request   \* history: per key, when its last request was counted

limiter_vars == <<timer, cache, rl_pc, rl_req, rl_resp, recent, window_start, last_request>>

vars == <<auth_vars, card_vars, limiter_vars>>

NoReq == [op |-> "none", refresh_token |-> NoToken, user |-> "none",
          rt |-> None, access_token |-> "none"]
NoResp == [op |-> "none", status |-> 0, detail |-> "", access_token |-> "none",
           refresh_token |-> NoToken, cookie |-> "untouched", cookie_value |-> NoToken]

\* a revoked token is told apart from an unknown one
InvalidOrRevoked(table, raw) ==
  IF \E i \in 1..Len(table) : table[i].token_hash = <<"sha256", raw>> /\ table[i].revoked
  THEN "Revoked refresh token" ELSE "Invalid refresh token"

\* detail of the 401 for a token the lookup does not return
InvalidDetail(table, raw) == "Invalid refresh token"

\* raise HTTPException(status_code, detail)
HTTPException(op, status, detail) ==
  [NoResp EXCEPT !.op = op, !.status = status, !.detail = detail]

\* an exception no handler catches (IntegrityError at the flush of commit): the
\* session is closed without a commit and the server answers 500
InternalServerError(op) == HTTPException(op, 500, "Internal Server Error")

\* the request was cancelled at an await: no response, the session rolls back
Cancelled(op) == HTTPException(op, 0, "cancelled")

(* ------------------------------------------------------------ token store *)
RowIds(table) == 1..Len(table)

\* the lookup without its revoked == False filter
find_refresh_any(table, raw) ==
  LET hits == {i \in RowIds(table) : table[i].token_hash = Hash(raw)}
  IN IF hits = {} THEN None ELSE CHOOSE i \in hits : TRUE

\* select(RefreshToken).where(token_hash == th, revoked == False).scalar_one_or_none()
find_refresh(table, raw) ==
  LET hits == {i \in RowIds(table) :
                 table[i].token_hash = Hash(raw) /\ table[i].revoked = FALSE}
  IN IF hits = {} THEN None ELSE CHOOSE i \in hits : TRUE

\* the expiry check left out
NeverExpired(row, t) == FALSE

\* rt.expires_at < datetime.now()
IsExpired(row, t) == row.expires_at < t

\* the raw token stored in place of its hash
NewRefreshTokenRaw(user_id, raw, t) ==
  [user_id |-> user_id, token_hash |-> <<"plain", raw>>, issued_at |-> t,
   expires_at |-> t + REFRESH_TOKEN_LIFETIME_DAYS, revoked |-> FALSE]

\* RefreshToken(user_id=..., token_hash=..., issued_at=now, expires_at=now+TTL, revoked=False)
NewRefreshToken(user_id, raw, t) ==
  [user_id |-> user_id, token_hash |-> Hash(raw), issued_at |-> t,
   expires_at |-> t + REFRESH_TOKEN_LIFETIME_DAYS, revoked |-> FALSE]

\* the revoke is lost
RevokeNothing(table, id) == table

\* update(RefreshToken).where(RefreshToken.id == id).values(revoked=True)
Revoke(table, id) == [table EXCEPT ![id].revoked = TRUE]

\* token_hash is unique=True: the INSERT of a hash already stored raises IntegrityError
HashStored(table, raw) == \E i \in RowIds(table) : table[i].token_hash = Hash(raw)

\* secrets.token_urlsafe(64): a random value. The values not stored yet are all
\* alike, so the least of them stands for them; a stored one is a collision.
token_urlsafe(table) ==
  LET unused == {r \in RawTokens : ~HashStored(table, r)}
  IN {r \in RawTokens : HashStored(table, r)}
       \cup (IF unused = {} THEN {} ELSE {CHOOSE r \in unused : \A q \in unused : r <= q})

\* history only: the state of the row of raw when a lookup runs at time t
Classify(table, raw, t) ==
  LET rows == {i \in RowIds(table) : table[i].token_hash = Hash(raw)}
  IN IF rows = {} THEN "absent"
     ELSE LET row == table[CHOOSE i \in rows : TRUE]
          IN IF row.revoked
             THEN (IF row.expires_at < t THEN "revoked_expired" ELSE "revoked")
             ELSE (IF row.expires_at < t THEN "expired" ELSE "live")

(* ------------------------------------------------------- flashcard tables *)
\* the accounts that own decks, and a request without a valid access token
Owners == {"u1", "u2"}
Anonymous == "anonymous"
Callers == Owners \cup {Anonymous}

\* the values a payload gives to the content columns (name, text, front,
\* filename)
Texts == {"a", "b"}
\* a content field the payload leaves out (or gives as null)
Unset == "unset"
Stages == {0, 1}
\* a payload without stage (payload.stage is None)
NoStage == -1

\* datetime values of a payload's fsrs.due: an aware one and a naive one
Dues == {[t |-> "a", tzinfo |-> "utc"], [t |-> "b", tzinfo |-> "none"]}
\* due left out
NoDue == [t |-> Unset, tzinfo |-> "none"]
\* the value is stored as it came
keep_tzinfo(due) == due
\* due.replace(tzinfo=None)
replace_tzinfo_none(due) == [due EXCEPT !.tzinfo = "none"]
Stabilities == {1}
\* FSRSSchema: due is required, the other fields are Optional and None when
\* left out (stability stands for the eight of them)
FsrsPayloads == [due : Dues, stability : Stabilities \cup {None}]
\* a payload without fsrs (payload.fsrs is None)
NoFsrs == [due |-> NoDue, stability |-> None]
\* FlashcardFSRSUpdateSchema: every field may be left out
FsrsUpdates == FsrsPayloads \cup {[due |-> NoDue, stability |-> 1]}

DeckIds == 1..MaxDecks
CardIds == 1..MaxCards
AudioIds == 1..MaxAudio
\* StudySession.id comes with the payload
SessionIds == {1}

\* the rows of a table are a function from the primary keys stored
Rows(table) == DOMAIN table
Insert(table, id, row) == [k \in Rows(table) \cup {id} |-> IF k = id THEN row ELSE table[k]]
Delete(table, gone) == [k \in Rows(table) \ gone |-> table[k]]
EmptyTable == [k \in {} |-> None]

\* the locals of create_flashcard: the payload, and the rows flushed in its
\* session (flashcard.id, a.id, qa.id, aa.id)
NoSession == [pc |-> "done", deck_id |-> None, stage |-> 0, discussion |-> FALSE,
              final_card |-> FALSE, fsrs |-> NoFsrs, value |-> "",
              flashcard |-> None, a |-> None, qa |-> None, aa |-> None]
NoResponse == [op |-> "none", status |-> 0, detail |-> ""]

\* the update_flashcard calls served side by side
Updaters == {1, 2}
\* the sections of a card
Sections == {"discussion", "final_card", "fsrs"}
\* the locals of one update_flashcard call: the payload, the attributes its
\* session has changed and not yet committed (item, fs), and, once it has
\* returned or raised, its status and the sections session.get did not find
NoUpdate == [pc |-> "done", flashcard_id |-> None, deck_id |-> None, stage |-> NoStage,
             discussion |-> FALSE, final_card |-> FALSE, fsrs |-> NoFsrs,
             item |-> [deck_id |-> None, stage |-> NoStage], fs |-> NoFsrs,
             absent |-> {}, status |-> 0]

InitTables ==
  /\ flashcard_decks = EmptyTable
  /\ flashcards = EmptyTable
  /\ flashcard_discussions = EmptyTable
  /\ flashcard_final_cards = EmptyTable
  /\ flashcard_fsrs = EmptyTable
  /\ audio_files = EmptyTable
  /\ study_sessions = EmptyTable
  /\ last_id = [deck |-> 0, card |-> 0, audio |-> 0]
  /\ session = NoSession
  /\ response = NoResponse
  /\ updates = [u \in Updaters |-> NoUpdate]

(* ----------------------------------- rate limiter (middleware/rate_limiter.py) *)
\* RateLimitMiddleware(app, max_requests, window_seconds)
max_requests == 2
window == 2
\* TTLCache(maxsize=10000, ttl=self.window)
maxsize == 10000
\* exempt_paths or []
exempt_paths == {}

\* request.client.host values, request.url.path values
Keys == {"k1", "k2"}
Paths == {"/ping"}
Requests == {1, 2}
Never == -1

\* TTLCache: an item is there while timer < expires
Live(c, key, t) == key \in DOMAIN c /\ t < c[key].expires

\* TTLCache.get(key, default)
get(c, key, default, t) == IF Live(c, key, t) THEN c[key].value ELSE default

\* TTLCache.expire(time): the items with expires <= time are removed
expire(c, t) == [k \in {x \in DOMAIN c : t < c[x].expires} |-> c[k]]

\* TTLCache.popitem(): the item that was set the longest ago goes
popitem(c) ==
  LET oldest == CHOOSE k \in DOMAIN c : \A x \in DOMAIN c : c[k].expires <= c[x].expires
  IN [k \in DOMAIN c \ {oldest} |-> c[k]]

\* TTLCache.__setitem__(key, value): expired items are purged, room is made
\* when the cache is full, and the item, new or not, expires ttl from now
setitem(c, key, value, t) ==
  LET kept == expire(c, t)
      room == IF key \notin DOMAIN kept /\ Cardinality(DOMAIN kept) >= maxsize
              THEN popitem(kept) ELSE kept
  IN [k \in DOMAIN room \cup {key} |->
        IF k = key THEN [value |-> value, expires |-> t + window] ELSE room[k]]

\* count > self.max_requests, one request late
LimitedLate(count) == count > max_requests + 1

\* count > self.max_requests
Limited(count) == count > max_requests

NoRlReq == [key |-> "none", count |-> 0]
NoRlResp == [status |-> 0, detail |-> "", retry_after |-> 0]

\* JSONResponse({"detail": "Rate limit exceeded"}, status_code=429,
\*              headers={"Retry-After": str(self.window)})
RateLimitExceeded == [status |-> 429, detail |-> "Rate limit exceeded", retry_after |-> window]

\* what the application answers behind the middleware
Pong == [status |-> 200, detail |-> "", retry_after |-> 0]

InitLimiter ==
  /\ timer = 0
  /\ cache = [k \in {} |-> 0]
  /\ rl_pc = [r \in Requests |-> "done"]
  /\ rl_req = [r \in Requests |-> NoRlReq]
  /\ rl_resp = [r \in Requests |-> NoRlResp]
  /\ recent = [k \in Keys |-> <<>>]
  /\ window_start = [k \in Keys |-> Never]
  /\ last_request = [k \in Keys |-> Never]

(* ------------------------------------------------------------------- init *)
Init ==
  /\ now = 0
  /\ refresh_tokens = <<>>
  /\ parent = <<>>
  /\ pc = [p \in Procs |-> "done"]
  /\ req = [p \in Procs |-> NoReq]
  /\ resp = [p \in Procs |-> NoResp]
  /\ lookup = [p \in Procs |-> "none"]
  /\ cookie_jar = NoToken
  /\ body_token = NoToken
  /\ InitTables
  /\ InitLimiter

Free(p) == pc[p] = "done"

\* the client takes the response: set_cookie("refresh_token", v) stores v,
\* delete_cookie("refresh_token") drops it, and a refresh_token in the body of
\* a 200 replaces the one the client kept
Receive(r) ==
  /\ cookie_jar' = IF r.cookie = "set" THEN r.cookie_value
                   ELSE IF r.cookie = "deleted" THEN NoToken
                   ELSE cookie_jar
  /\ body_token' = IF r.status = 200 /\ r.refresh_token # NoToken THEN r.refresh_token
                   ELSE body_token

\* the handler returns or raises: its locals are gone
Finish(p, r) ==
  /\ pc' = [pc EXCEPT ![p] = "done"]
  /\ req' = [req EXCEPT ![p] = NoReq]
  /\ resp' = [resp EXCEPT ![p] = r]
  /\ Receive(r)
  /\ UNCHANGED <<card_vars, limiter_vars>>

Goto(p, label, locals) ==
  /\ pc' = [pc EXCEPT ![p] = label]
  /\ req' = [req EXCEPT ![p] = locals]
  /\ resp' = [resp EXCEPT ![p] = NoResp]
  /\ UNCHANGED client_vars
  /\ UNCHANGED <<card_vars, limiter_vars>>

Met(p, what) == lookup' = [lookup EXCEPT ![p] = what]

(* ------------------------------------------------------------ environment *)
\* time passes
Tick ==
  /\ now + ClockStep <= MaxNow
  /\ now' = now + ClockStep
  /\ UNCHANGED <<refresh_tokens, parent, pc, req, resp, lookup, client_vars>>
  /\ UNCHANGED <<card_vars, limiter_vars>>

\* a request is cancelled while it waits at an await (client gone, timeout);
\* leaving "async with AsyncSessionLocal()" without a commit rolls back
Cancel(p) ==
  /\ ~Free(p)
  /\ Finish(p, Cancelled(req[p].op))
  /\ Met(p, "none")
  /\ UNCHANGED <<now, refresh_tokens, parent>>

(* ------------------------------------------------- login (routes/auth.py) *)
\* POST /auth/jwt/login arrives with form_data naming account u
LoginRequest(p, u) ==
  /\ Free(p)
  /\ Goto(p, "authenticate", [NoReq EXCEPT !.op = "login", !.user = u])
  /\ UNCHANGED <<now, refresh_tokens, parent>>
  /\ Met(p, "none")

AuthenticateResults == {"none", "inactive", "active"}

\* the is_active check left out
LoginAuthenticateAnyUser(p, user) ==
  /\ pc[p] = "authenticate" /\ req[p].op = "login"
  /\ IF user = "none"
     THEN Finish(p, HTTPException("login", 400, "Invalid credentials"))
     ELSE Goto(p, "backend_login", req[p])
  /\ UNCHANGED <<now, refresh_tokens, parent, lookup>>

\* user = await user_manager.authenticate(form_data): the credential store
\* answers None (unknown account, wrong password), an inactive user or an
\* active one; None or inactive: 400
LoginAuthenticate(p, user) ==
  /\ pc[p] = "authenticate" /\ req[p].op = "login"
  /\ IF user = "none" \/ user # "active"
     THEN Finish(p, HTTPException("login", 400, "Invalid credentials"))
     ELSE Goto(p, "backend_login", req[p])
  /\ UNCHANGED <<now, refresh_tokens, parent, lookup>>

\* resp = await auth_backend.login(strategy, user); body.get("access_token"),
\* None when the body holds none; login goes on in both cases
LoginBackendLogin(p) ==
  /\ pc[p] = "backend_login" /\ req[p].op = "login"
  /\ \E tok \in {"jwt", "none"} :
       Goto(p, "commit", [req[p] EXCEPT !.access_token = tok])
  /\ UNCHANGED <<now, refresh_tokens, parent, lookup>>

\* raw = secrets.token_urlsafe(64); session.add(rt); await session.commit().
\* The INSERT is refused (IntegrityError) when the hash is stored already, or
\* when the account was deleted meanwhile and the engine enforces the foreign
\* key user_id -> users.id (fk_ok is FALSE).
\* The cookie is set on the backend's response object, which is not the one
\* returned, so the client's cookie is untouched.
LoginCommit(p) ==
  /\ pc[p] = "commit" /\ req[p].op = "login"
  /\ \E raw \in token_urlsafe(refresh_tokens), fk_ok \in BOOLEAN :
       IF fk_ok /\ ~HashStored(refresh_tokens, raw)
       THEN /\ refresh_tokens' = Append(refresh_tokens, NewRefreshToken(req[p].user, raw, now))
            /\ parent' = Append(parent, 0)
            /\ Finish(p, [NoResp EXCEPT !.op = "login", !.status = 200,
                                        !.access_token = req[p].access_token,
                                        !.refresh_token = raw])
       ELSE /\ UNCHANGED <<refresh_tokens, parent>>
            /\ Finish(p, InternalServerError("login"))
  /\ UNCHANGED <<now, lookup>>

(* ------------------------- refresh (routes/refresh.py and routes/auth.py) *)
\* POST /auth/refresh arrives; a falsy token is answered at once
RefreshRequest(p, raw) ==
  /\ Free(p)
  /\ IF raw = NoToken
     THEN Finish(p, HTTPException("refresh", 401, "Missing refresh token"))
     ELSE Goto(p, "find", [NoReq EXCEPT !.op = "refresh", !.refresh_token = raw])
  /\ UNCHANGED <<now, refresh_tokens, parent>>
  /\ Met(p, "none")

\* the expiry check made before the revoked check: the lookup is by hash alone
RefreshFindExpiryFirst(p) ==
  /\ pc[p] = "find" /\ req[p].op = "refresh"
  /\ LET rt == find_refresh_any(refresh_tokens, req[p].refresh_token)
     IN IF rt = None
        THEN Finish(p, HTTPException("refresh", 401, "Invalid refresh token"))
        ELSE IF IsExpired(refresh_tokens[rt], now)
        THEN Finish(p, HTTPException("refresh", 401, "Expired refresh token"))
        ELSE IF refresh_tokens[rt].revoked
        THEN Finish(p, HTTPException("refresh", 401, "Invalid refresh token"))
        ELSE Goto(p, "get_user", [req[p] EXCEPT !.rt = rt])
  /\ UNCHANGED <<now, refresh_tokens, parent>>
  /\ Met(p, Classify(refresh_tokens, req[p].refresh_token, now))

\* the lookup is by hash alone: a revoked row is returned like any other
RefreshFindRevokedToo(p) ==
  /\ pc[p] = "find" /\ req[p].op = "refresh"
  /\ LET rt == find_refresh_any(refresh_tokens, req[p].refresh_token)
     IN IF rt = None
        THEN Finish(p, HTTPException("refresh", 401, "Invalid refresh token"))
        ELSE IF IsExpired(refresh_tokens[rt], now)
        THEN Finish(p, HTTPException("refresh", 401, "Expired refresh token"))
        ELSE Goto(p, "get_user", [req[p] EXCEPT !.rt = rt])
  /\ UNCHANGED <<now, refresh_tokens, parent>>
  /\ Met(p, Classify(refresh_tokens, req[p].refresh_token, now))

\* rt = await _find_refresh(session, refresh_token); not rt: 401 invalid;
\* rt.expires_at < datetime.now(): 401 expired
RefreshFind(p) ==
  /\ pc[p] = "find" /\ req[p].op = "refresh"
  /\ LET rt == find_refresh(refresh_tokens, req[p].refresh_token)
     IN IF rt = None
        THEN Finish(p, HTTPException("refresh", 401,
                                     InvalidDetail(refresh_tokens, req[p].refresh_token)))
        ELSE IF IsExpired(refresh_tokens[rt], now)
        THEN Finish(p, HTTPException("refresh", 401, "Expired refresh token"))
        ELSE Goto(p, "get_user", [req[p] EXCEPT !.rt = rt])
  /\ UNCHANGED <<now, refresh_tokens, parent>>
  /\ Met(p, Classify(refresh_tokens, req[p].refresh_token, now))

\* user = await session.get(User, rt.user_id): the account is there or was
\* deleted; not user: 401
RefreshGetUser(p) ==
  /\ pc[p] = "get_user" /\ req[p].op = "refresh"
  /\ \E found \in BOOLEAN :
       IF ~found
       THEN Finish(p, HTTPException("refresh", 401, "User not found"))
       ELSE Goto(p, "backend_login", [req[p] EXCEPT !.user = refresh_tokens[req[p].rt].user_id])
  /\ UNCHANGED <<now, refresh_tokens, parent, lookup>>

\* the access token is not checked, as in login
RefreshBackendLoginUnchecked(p) ==
  /\ pc[p] = "backend_login" /\ req[p].op = "refresh"
  /\ \E tok \in {"jwt", "none"} :
       Goto(p, "revoke", [req[p] EXCEPT !.access_token = tok])
  /\ UNCHANGED <<now, refresh_tokens, parent, lookup>>

\* resp = await auth_backend.login(strategy, user); not access_token: 500
RefreshBackendLogin(p) ==
  /\ pc[p] = "backend_login" /\ req[p].op = "refresh"
  /\ \E tok \in {"jwt", "none"} :
       IF tok = "none"
       THEN Finish(p, HTTPException("refresh", 500, "Unable to obtain access token from auth backend"))
       ELSE Goto(p, "revoke", [req[p] EXCEPT !.access_token = tok])
  /\ UNCHANGED <<now, refresh_tokens, parent, lookup>>

\* the revoke statement commits on its own
RefreshRevokeAutocommit(p) ==
  /\ pc[p] = "revoke" /\ req[p].op = "refresh"
  /\ refresh_tokens' = [refresh_tokens EXCEPT ![req[p].rt].revoked = TRUE]
  /\ Goto(p, "commit", req[p])
  /\ UNCHANGED <<now, parent, lookup>>

\* await session.execute(update(RefreshToken)...values(revoked=True)): staged in
\* the session's transaction, not yet visible to other sessions
RefreshRevoke(p) ==
  /\ pc[p] = "revoke" /\ req[p].op = "refresh"
  /\ Goto(p, "commit", req[p])
  /\ UNCHANGED <<now, refresh_tokens, parent, lookup>>

\* the response of a successful refresh: routes/refresh.py sets the cookie,
\* routes/auth.py returns the new raw token in the body
RefreshResponse(route, access_token, new_raw) ==
  IF route = "refresh.py"
  THEN [NoResp EXCEPT !.op = "refresh", !.status = 200, !.access_token = access_token,
                      !.cookie = "set", !.cookie_value = new_raw]
  ELSE [NoResp EXCEPT !.op = "refresh", !.status = 200, !.access_token = access_token,
                      !.refresh_token = new_raw]

\* rotation overwrites the presented row with the new token
RefreshCommitInPlace(p, route) ==
  /\ pc[p] = "commit" /\ req[p].op = "refresh"
  /\ \E new_raw \in token_urlsafe(refresh_tokens), fk_ok \in BOOLEAN :
       IF fk_ok /\ ~HashStored(refresh_tokens, new_raw)
       THEN /\ refresh_tokens' = [refresh_tokens EXCEPT ![req[p].rt] =
                                    NewRefreshToken(req[p].user, new_raw, now)]
            /\ parent' = parent
            /\ Finish(p, RefreshResponse(route, req[p].access_token, new_raw))
       ELSE /\ UNCHANGED <<refresh_tokens, parent>>
            /\ Finish(p, InternalServerError("refresh"))
  /\ UNCHANGED <<now, lookup>>

\* new_raw = secrets.token_urlsafe(64); session.add(new_rt); await session.commit():
\* the staged revoke and the insert are committed together, or the commit raises
\* and neither is. The two modules' handlers are the same up to here and differ
\* in the response only, so which of them runs (route) is drawn here.
RefreshCommit(p, route) ==
  /\ pc[p] = "commit" /\ req[p].op = "refresh"
  /\ \E new_raw \in token_urlsafe(refresh_tokens), fk_ok \in BOOLEAN :
       IF fk_ok /\ ~HashStored(refresh_tokens, new_raw)
       THEN /\ refresh_tokens' = Append(Revoke(refresh_tokens, req[p].rt),
                                        NewRefreshToken(req[p].user, new_raw, now))
            /\ parent' = Append(parent, req[p].rt)
            /\ Finish(p, RefreshResponse(route, req[p].access_token, new_raw))
       ELSE /\ UNCHANGED <<refresh_tokens, parent>>
            /\ Finish(p, InternalServerError("refresh"))
  /\ UNCHANGED <<now, lookup>>

(* -------------------------- logout (routes/refresh.py and routes/auth.py) *)
\* response.delete_cookie("refresh_token"); return {"detail": "logged out"}
LoggedOut ==
  [NoResp EXCEPT !.op = "logout", !.status = 200, !.detail = "logged out", !.cookie = "deleted"]

\* POST /auth/logout arrives; without a cookie there is nothing to revoke
LogoutRequest(p, raw) ==
  /\ Free(p)
  /\ IF raw = NoToken
     THEN Finish(p, LoggedOut)
     ELSE Goto(p, "find", [NoReq EXCEPT !.op = "logout", !.refresh_token = raw])
  /\ UNCHANGED <<now, refresh_tokens, parent>>
  /\ Met(p, "none")

\* a token that is not found is an error
LogoutFindStrict(p) ==
  /\ pc[p] = "find" /\ req[p].op = "logout"
  /\ LET rt == find_refresh(refresh_tokens, req[p].refresh_token)
     IN IF rt = None
        THEN Finish(p, HTTPException("logout", 401, "Invalid refresh token"))
        ELSE Goto(p, "revoke", [req[p] EXCEPT !.rt = rt])
  /\ UNCHANGED <<now, refresh_tokens, parent>>
  /\ Met(p, Classify(refresh_tokens, req[p].refresh_token, now))

\* rt = await _find_refresh(session, refresh_token); if rt: revoke it
LogoutFind(p) ==
  /\ pc[p] = "find" /\ req[p].op = "logout"
  /\ LET rt == find_refresh(refresh_tokens, req[p].refresh_token)
     IN IF rt = None
        THEN Finish(p, LoggedOut)
        ELSE Goto(p, "revoke", [req[p] EXCEPT !.rt = rt])
  /\ UNCHANGED <<now, refresh_tokens, parent>>
  /\ Met(p, Classify(refresh_tokens, req[p].refresh_token, now))

\* await session.execute(update(RefreshToken)...values(revoked=True))
LogoutRevoke(p) ==
  /\ pc[p] = "revoke" /\ req[p].op = "logout"
  /\ Goto(p, "commit", req[p])
  /\ UNCHANGED <<now, refresh_tokens, parent, lookup>>

\* logout revokes every token of the account
LogoutCommitAllOfUser(p) ==
  /\ pc[p] = "commit" /\ req[p].op = "logout"
  /\ refresh_tokens' =
       [i \in RowIds(refresh_tokens) |->
          IF refresh_tokens[i].user_id = refresh_tokens[req[p].rt].user_id
          THEN [refresh_tokens[i] EXCEPT !.revoked = TRUE]
          ELSE refresh_tokens[i]]
  /\ Finish(p, LoggedOut)
  /\ UNCHANGED <<now, parent, lookup>>

\* await session.commit(); response.delete_cookie("refresh_token")
LogoutCommit(p) ==
  /\ pc[p] = "commit" /\ req[p].op = "logout"
  /\ refresh_tokens' = Revoke(refresh_tokens, req[p].rt)
  /\ Finish(p, LoggedOut)
  /\ UNCHANGED <<now, parent, lookup>>

(* ------------------------------------------------ decks (routes/decks.py) *)
\* the handler returns or raises: the answer is sent and its session is closed
Respond(op, status, detail) ==
  /\ response' = [op |-> op, status |-> status, detail |-> detail]
  /\ session' = NoSession
  /\ UNCHANGED <<auth_vars, limiter_vars, updates>>

\* no request is being served
Idle == session.pc = "done"

\* Depends(current_active_user): without a valid access token the request is
\* answered 401 before the handler runs
Unauthorized(op) == Respond(op, 401, "Unauthorized")

\* the cards of a deck, and the rows that go with a set of cards
CardsOf(deck_id) == {c \in Rows(flashcards) : flashcards[c].deck_id = deck_id}

\* POST /decks/: FlashcardDeck(name=payload.name, owner_id=current_user.id)
create_deck(caller, name) ==
  /\ Idle /\ last_id.deck < MaxDecks
  /\ IF caller = Anonymous
     THEN Unauthorized("create_deck") /\ UNCHANGED <<tables, last_id>>
     ELSE /\ flashcard_decks' = Insert(flashcard_decks, last_id.deck + 1,
                                        [name |-> name, owner_id |-> caller])
          /\ last_id' = [last_id EXCEPT !.deck = @ + 1]
          /\ Respond("create_deck", 201, "")
          /\ UNCHANGED <<flashcards, flashcard_discussions, flashcard_final_cards,
                         flashcard_fsrs, audio_files, study_sessions>>

\* PUT /decks/{deck_id}: the handler takes no current_user; a name left out
\* leaves the name as it is
update_deck(caller, deck_id, name) ==
  /\ Idle
  /\ IF deck_id \notin Rows(flashcard_decks)
     THEN Respond("update_deck", 404, "Deck not found") /\ UNCHANGED <<tables, last_id>>
     ELSE /\ flashcard_decks' = IF name # Unset
                                 THEN [flashcard_decks EXCEPT ![deck_id].name = name]
                                 ELSE flashcard_decks
          /\ Respond("update_deck", 200, "")
          /\ UNCHANGED <<flashcards, flashcard_discussions, flashcard_final_cards,
                         flashcard_fsrs, audio_files, study_sessions, last_id>>

\* session.delete(item) of flashcards gone: the cascade "all, delete-orphan" of
\* Flashcard.discussion, .final_card and .fsrs loads and deletes the
\* sections. Their audio relationships are passive_deletes=True and were
\* never loaded in this session, so the cascade does not reach the AudioFile
\* rows, and audio_files has no ON DELETE rule: they stay.
DeleteFlashcards(gone) ==
  /\ flashcards' = Delete(flashcards, gone)
  /\ flashcard_discussions' = Delete(flashcard_discussions, gone)
  /\ flashcard_final_cards' = Delete(flashcard_final_cards, gone)
  /\ flashcard_fsrs' = Delete(flashcard_fsrs, gone)
  /\ audio_files' = audio_files

\* DELETE /decks/{deck_id}: current_user is required and not compared with
\* owner_id; FlashcardDeck.cards cascades to the cards. A study session that
\* names the deck (study_sessions.deck_id has no ON DELETE rule) makes the
\* DELETE fail at the flush: IntegrityError, 500, nothing deleted.
delete_deck(caller, deck_id) ==
  /\ Idle
  /\ IF caller = Anonymous
     THEN Unauthorized("delete_deck") /\ UNCHANGED <<tables, last_id>>
     ELSE IF deck_id \notin Rows(flashcard_decks)
     THEN Respond("delete_deck", 404, "Deck not found") /\ UNCHANGED <<tables, last_id>>
     ELSE IF \E k \in Rows(study_sessions) : study_sessions[k].deck_id = deck_id
     THEN Respond("delete_deck", 500, "Internal Server Error") /\ UNCHANGED <<tables, last_id>>
     ELSE /\ flashcard_decks' = Delete(flashcard_decks, {deck_id})
          /\ DeleteFlashcards(CardsOf(deck_id))
          /\ Respond("delete_deck", 204, "")
          /\ UNCHANGED <<study_sessions, last_id>>

(* -------------------------------------- flashcards (routes/flashcards.py) *)
InternalError(op) == Respond(op, 500, "Internal Server Error")

\* the deck is not looked up
create_flashcard_any_deck(deck_id, stage, discussion, final_card, fsrs, value) ==
  /\ Idle
  /\ last_id.card < MaxCards
  /\ last_id.audio + (IF discussion THEN 1 ELSE 0) + (IF final_card THEN 2 ELSE 0) <= MaxAudio
  /\ session' = [NoSession EXCEPT !.pc = "flush_card", !.deck_id = deck_id,
                                  !.stage = stage, !.discussion = discussion,
                                  !.final_card = final_card, !.fsrs = fsrs,
                                  !.value = value]
  /\ response' = NoResponse
  /\ UNCHANGED <<auth_vars, limiter_vars, updates>>
  /\ UNCHANGED <<tables, last_id>>

\* POST /flashcards/: deck = await session.get(FlashcardDeck, payload.deck_id);
\* not deck: 404. The payload holds the deck, the stage and the nested
\* sections that are there (discussion, final_card, fsrs).
create_flashcard(deck_id, stage, discussion, final_card, fsrs, value) ==
  /\ Idle
  /\ last_id.card < MaxCards
  /\ last_id.audio + (IF discussion THEN 1 ELSE 0) + (IF final_card THEN 2 ELSE 0) <= MaxAudio
  /\ IF deck_id \notin Rows(flashcard_decks)
     THEN Respond("create_flashcard", 404, "Deck not found")
     ELSE /\ session' = [NoSession EXCEPT !.pc = "flush_card", !.deck_id = deck_id,
                                          !.stage = stage, !.discussion = discussion,
                                          !.final_card = final_card, !.fsrs = fsrs,
                                          !.value = value]
          /\ response' = NoResponse
          /\ UNCHANGED <<auth_vars, limiter_vars, updates>>
  /\ UNCHANGED <<tables, last_id>>

\* session.flush() writes the row inside the transaction and commits it
CreateFlushCardAutocommit(ok) ==
  /\ session.pc = "flush_card"
  /\ IF ok
     THEN /\ session' = [session EXCEPT !.pc = "discussion", !.flashcard = last_id.card + 1]
          /\ last_id' = [last_id EXCEPT !.card = @ + 1]
          /\ flashcards' = Insert(flashcards, last_id.card + 1,
                                  [deck_id |-> session.deck_id, stage |-> session.stage])
          /\ response' = response
          /\ UNCHANGED <<auth_vars, limiter_vars, updates>>
     ELSE InternalError("create_flashcard") /\ UNCHANGED <<flashcards, last_id>>
  /\ UNCHANGED <<flashcard_decks, flashcard_discussions, flashcard_final_cards,
                 flashcard_fsrs, audio_files, study_sessions>>

\* flashcard = Flashcard(...); session.add(flashcard); await session.flush():
\* the INSERT runs inside the session's transaction (flashcard.id is known
\* from here on); when it fails the exception leaves the handler, get_db
\* closes the session without a commit and the answer is 500
CreateFlushCard(ok) ==
  /\ session.pc = "flush_card"
  /\ IF ok
     THEN /\ session' = [session EXCEPT !.pc = "discussion", !.flashcard = last_id.card + 1]
          /\ last_id' = [last_id EXCEPT !.card = @ + 1]
          /\ response' = response
          /\ UNCHANGED <<auth_vars, limiter_vars, updates>>
     ELSE InternalError("create_flashcard") /\ UNCHANGED last_id
  /\ UNCHANGED tables

\* if payload.discussion: a = AudioFile(...); session.add(a); flush;
\* disc = FlashcardDiscussion(flashcard_id, ..., audio_id=a.id); session.add(disc)
CreateDiscussion(ok) ==
  /\ session.pc = "discussion"
  /\ IF ~session.discussion
     THEN /\ session' = [session EXCEPT !.pc = "final_card"]
          /\ UNCHANGED <<last_id, response, auth_vars, limiter_vars, updates>>
     ELSE IF ok
     THEN /\ session' = [session EXCEPT !.pc = "final_card", !.a = last_id.audio + 1]
          /\ last_id' = [last_id EXCEPT !.audio = @ + 1]
          /\ UNCHANGED <<response, auth_vars, limiter_vars, updates>>
     ELSE InternalError("create_flashcard") /\ UNCHANGED last_id
  /\ UNCHANGED tables

\* if payload.final_card: qa and aa are added and flushed one after the other,
\* then fc = FlashcardFinalCard(..., question_audio_id=qa.id, answer_audio_id=aa.id)
CreateFinalCard(ok) ==
  /\ session.pc = "final_card"
  /\ IF ~session.final_card
     THEN /\ session' = [session EXCEPT !.pc = "commit"]
          /\ UNCHANGED <<last_id, response, auth_vars, limiter_vars, updates>>
     ELSE IF ok
     THEN /\ session' = [session EXCEPT !.pc = "commit", !.qa = last_id.audio + 1,
                                        !.aa = last_id.audio + 2]
          /\ last_id' = [last_id EXCEPT !.audio = @ + 2]
          /\ UNCHANGED <<response, auth_vars, limiter_vars, updates>>
     ELSE InternalError("create_flashcard") /\ UNCHANGED last_id
  /\ UNCHANGED tables

\* the rows a create call has in its session
StagedAudio(ss) == {ss.a, ss.qa, ss.aa} \ {None}

\* if payload.fsrs: session.add(FlashcardFSRS(...)); await session.commit():
\* the sections still pending are flushed and everything the session holds
\* is committed together, or the commit raises and none of it is
CreateCommit(ok) ==
  /\ session.pc = "commit"
  /\ IF ok
     THEN /\ flashcards' = Insert(flashcards, session.flashcard,
                                  [deck_id |-> session.deck_id, stage |-> session.stage])
          /\ audio_files' =
               [k \in Rows(audio_files) \cup StagedAudio(session) |->
                  IF k \in StagedAudio(session) THEN [filename |-> session.value]
                  ELSE audio_files[k]]
          /\ flashcard_discussions' =
               IF session.discussion
               THEN Insert(flashcard_discussions, session.flashcard,
                           [text |-> session.value, audio_id |-> session.a])
               ELSE flashcard_discussions
          /\ flashcard_final_cards' =
               IF session.final_card
               THEN Insert(flashcard_final_cards, session.flashcard,
                           [front |-> session.value, question_audio_id |-> session.qa,
                            answer_audio_id |-> session.aa])
               ELSE flashcard_final_cards
          /\ flashcard_fsrs' =
               IF session.fsrs # NoFsrs
               THEN Insert(flashcard_fsrs, session.flashcard,
                           [due |-> replace_tzinfo_none(session.fsrs.due),
                            stability |-> session.fsrs.stability])
               ELSE flashcard_fsrs
          /\ session' = [session EXCEPT !.pc = "reload"]
          /\ UNCHANGED <<response, auth_vars, limiter_vars, updates>>
     ELSE /\ InternalError("create_flashcard")
          /\ UNCHANGED <<flashcards, audio_files, flashcard_discussions,
                         flashcard_final_cards, flashcard_fsrs>>
  /\ UNCHANGED <<flashcard_decks, study_sessions, last_id>>

\* await session.refresh(flashcard); the select with the joinedloads; 201
CreateReload(ok) ==
  /\ session.pc = "reload"
  /\ IF ok THEN Respond("create_flashcard", 201, "") ELSE InternalError("create_flashcard")
  /\ UNCHANGED <<tables, last_id>>

\* the new deck is not looked up
update_flashcard_deck_unchecked(flashcard_id, deck_id, stage, discussion, final_card, fsrs, ok) ==
  /\ Idle
  /\ IF flashcard_id \notin Rows(flashcards)
     THEN Respond("update_flashcard", 404, "Flashcard not found") /\ UNCHANGED tables
     ELSE IF discussion \/ final_card
               \/ (fsrs # NoFsrs /\ flashcard_id \notin Rows(flashcard_fsrs))
     THEN InternalError("update_flashcard") /\ UNCHANGED tables
     ELSE /\ flashcards' =
               [flashcards EXCEPT
                  ![flashcard_id].deck_id = IF deck_id # None THEN deck_id ELSE @,
                  ![flashcard_id].stage = IF stage # NoStage THEN stage ELSE @]
          /\ flashcard_fsrs' =
               IF fsrs # NoFsrs
               THEN [flashcard_fsrs EXCEPT
                       ![flashcard_id].due = replace_tzinfo_none(fsrs.due),
                       ![flashcard_id].stability = fsrs.stability]
               ELSE flashcard_fsrs
          /\ IF ok THEN Respond("update_flashcard", 200, "")
                   ELSE InternalError("update_flashcard")
          /\ UNCHANGED <<flashcard_decks, flashcard_discussions, flashcard_final_cards,
                         audio_files, study_sessions>>
  /\ UNCHANGED last_id

\* the card is replaced by the payload: a section the payload leaves out is
\* deleted
update_flashcard_replace(flashcard_id, deck_id, stage, discussion, final_card, fsrs, ok) ==
  /\ Idle
  /\ IF flashcard_id \notin Rows(flashcards)
     THEN Respond("update_flashcard", 404, "Flashcard not found") /\ UNCHANGED tables
     ELSE /\ flashcards' =
               [flashcards EXCEPT
                  ![flashcard_id].deck_id = IF deck_id # None THEN deck_id ELSE @,
                  ![flashcard_id].stage = IF stage # NoStage THEN stage ELSE @]
          /\ flashcard_fsrs' =
               IF fsrs # NoFsrs THEN flashcard_fsrs ELSE Delete(flashcard_fsrs, {flashcard_id})
          /\ flashcard_discussions' =
               IF discussion THEN flashcard_discussions
               ELSE Delete(flashcard_discussions, {flashcard_id})
          /\ flashcard_final_cards' =
               IF final_card THEN flashcard_final_cards
               ELSE Delete(flashcard_final_cards, {flashcard_id})
          /\ Respond("update_flashcard", 200, "")
          /\ UNCHANGED <<flashcard_decks, audio_files, study_sessions>>
  /\ UNCHANGED last_id

\* PUT /flashcards/{flashcard_id} (routes/flashcards.py). A section of the
\* payload carries its audio (required by DiscussionSchema, FinalCardSchema):
\* disc.audio = payload.discussion.audio.dict(), and FlashcardDiscussion(...,
\* audio=audio), hand a dict to a relationship attribute, which raises; so do
\* the two audio attributes of the final card, and FlashcardFSRS(...,
\* audio_id=...) names a column the class has not (TypeError). The exception
\* leaves the handler before the commit: 500 and nothing written. What is
\* left: deck_id, stage, and the fields of an fsrs row that exists, which are
\* all assigned from the payload, those it leaves out (None) too.
\* After the commit the card is selected again and serialised; ok says
\* whether that succeeds.
update_flashcard(flashcard_id, deck_id, stage, discussion, final_card, fsrs, ok) ==
  /\ Idle
  /\ IF flashcard_id \notin Rows(flashcards)
     THEN Respond("update_flashcard", 404, "Flashcard not found") /\ UNCHANGED tables
     ELSE IF deck_id # None /\ deck_id \notin Rows(flashcard_decks)
     THEN Respond("update_flashcard", 404, "Deck not found") /\ UNCHANGED tables
     ELSE IF discussion \/ final_card
               \/ (fsrs # NoFsrs /\ flashcard_id \notin Rows(flashcard_fsrs))
     THEN InternalError("update_flashcard") /\ UNCHANGED tables
     ELSE /\ flashcards' =
               [flashcards EXCEPT
                  ![flashcard_id].deck_id = IF deck_id # None THEN deck_id ELSE @,
                  ![flashcard_id].stage = IF stage # NoStage THEN stage ELSE @]
          /\ flashcard_fsrs' =
               IF fsrs # NoFsrs
               THEN [flashcard_fsrs EXCEPT
                       ![flashcard_id].due = replace_tzinfo_none(fsrs.due),
                       ![flashcard_id].stability = fsrs.stability]
               ELSE flashcard_fsrs
          /\ IF ok THEN Respond("update_flashcard", 200, "")
                   ELSE InternalError("update_flashcard")
          /\ UNCHANGED <<flashcard_decks, flashcard_discussions, flashcard_final_cards,
                         audio_files, study_sessions>>
  /\ UNCHANGED last_id

\* DELETE /flashcards/{flashcard_id}: session.delete(item); commit
delete_flashcard(flashcard_id) ==
  /\ Idle
  /\ IF flashcard_id \notin Rows(flashcards)
     THEN Respond("delete_flashcard", 404, "Flashcard not found") /\ UNCHANGED tables
     ELSE /\ DeleteFlashcards({flashcard_id})
          /\ Respond("delete_flashcard", 204, "")
          /\ UNCHANGED <<flashcard_decks, study_sessions>>
  /\ UNCHANGED last_id

\* the two modules that define PUT /flashcards/{flashcard_id}/fsrs
FsrsRoutes == {"flashcards_fsrs.py", "flashcards/flashcards_fsrs.py"}

\* PUT /flashcards/{flashcard_id}/fsrs: routes/flashcards_fsrs.py takes an
\* FSRSSchema, so a payload without due is refused (422) before the handler
\* runs. No fsrs row for the card: 404 in both modules. With a row,
\* routes/flashcards_fsrs.py calls create_fsrs_orm_from_dto, which reads
\* dto.flashcard_id, a field FSRSSchema has not (AttributeError, 500);
\* routes/flashcards/flashcards_fsrs.py sets the fields supplied
\* (update_flashcard_fsrs_orm_from_dto) and commits.
update_fsrs(route, flashcard_id, fsrs) ==
  /\ Idle
  /\ IF route = "flashcards_fsrs.py" /\ fsrs.due = NoDue
     THEN Respond("update_fsrs", 422, "Unprocessable Entity") /\ UNCHANGED tables
     ELSE IF flashcard_id \notin Rows(flashcard_fsrs)
     THEN /\ Respond("update_fsrs", 404, "FSRS record not found for this flashcard")
          /\ UNCHANGED tables
     ELSE IF route = "flashcards_fsrs.py"
     THEN InternalError("update_fsrs") /\ UNCHANGED tables
     ELSE /\ flashcard_fsrs' =
               [flashcard_fsrs EXCEPT
                  ![flashcard_id].due =
                     IF fsrs.due # NoDue THEN replace_tzinfo_none(fsrs.due) ELSE @,
                  ![flashcard_id].stability =
                     IF fsrs.stability # None THEN fsrs.stability ELSE @]
          /\ Respond("update_fsrs", 200, "")
          /\ UNCHANGED <<flashcard_decks, flashcards, flashcard_discussions,
                         flashcard_final_cards, audio_files, study_sessions>>
  /\ UNCHANGED last_id

(* ------------------- update_flashcard, await by await (routes/flashcards.py) *)
\* what an update step leaves alone
update_frame == <<last_id, session, response, auth_vars, limiter_vars>>

\* the call raises or returns: get_db closes its session, what the session
\* had changed and not committed is dropped
Raise(u, status, absent) ==
  updates' = [updates EXCEPT ![u] = [NoUpdate EXCEPT !.status = status, !.absent = absent]]

\* PUT /flashcards/{flashcard_id} arrives while others are served
UpdateRequest(u, flashcard_id, deck_id, stage, discussion, final_card, fsrs) ==
  /\ updates[u].pc = "done"
  /\ updates' = [updates EXCEPT ![u] =
                   [NoUpdate EXCEPT !.pc = "get", !.flashcard_id = flashcard_id,
                                    !.deck_id = deck_id, !.stage = stage,
                                    !.discussion = discussion,
                                    !.final_card = final_card, !.fsrs = fsrs]]
  /\ UNCHANGED <<tables, update_frame>>

\* item = await session.get(Flashcard, flashcard_id); not item: 404
UpdateGet(u) ==
  /\ updates[u].pc = "get"
  /\ IF updates[u].flashcard_id \notin Rows(flashcards)
     THEN Raise(u, 404, {})
     ELSE updates' = [updates EXCEPT ![u].pc = "deck"]
  /\ UNCHANGED <<tables, update_frame>>

\* the stage is written to the table as soon as it is assigned
UpdateDeckAutocommit(u) ==
  /\ updates[u].pc = "deck"
  /\ IF updates[u].deck_id # None /\ updates[u].deck_id \notin Rows(flashcard_decks)
     THEN Raise(u, 404, {}) /\ UNCHANGED tables
     ELSE /\ updates' = [updates EXCEPT ![u].pc = "discussion",
                                         ![u].item.deck_id = updates[u].deck_id]
          /\ flashcards' =
               IF updates[u].flashcard_id \in Rows(flashcards) /\ updates[u].stage # NoStage
               THEN [flashcards EXCEPT ![updates[u].flashcard_id].stage = updates[u].stage]
               ELSE flashcards
          /\ UNCHANGED <<flashcard_decks, flashcard_discussions, flashcard_final_cards,
                         flashcard_fsrs, audio_files, study_sessions>>
  /\ UNCHANGED update_frame

\* if payload.deck_id is not None: new_deck = await session.get(...); not
\* new_deck: 404; item.deck_id = payload.deck_id. if payload.stage is not
\* None: item.stage = payload.stage. Both are attributes of the session's
\* object until the commit.
UpdateDeck(u) ==
  /\ updates[u].pc = "deck"
  /\ IF updates[u].deck_id # None /\ updates[u].deck_id \notin Rows(flashcard_decks)
     THEN Raise(u, 404, {})
     ELSE updates' = [updates EXCEPT ![u].pc = "discussion",
                                     ![u].item = [deck_id |-> updates[u].deck_id,
                                                  stage |-> updates[u].stage]]
  /\ UNCHANGED <<tables, update_frame>>

\* if payload.discussion is not None: disc = await session.get(...). With a
\* row, disc.audio = payload.discussion.audio.dict() assigns a dict to the
\* relationship; without one, FlashcardDiscussion(..., audio=audio) is given
\* the dict: both raise, the call is answered 500.
UpdateDiscussion(u) ==
  /\ updates[u].pc = "discussion"
  /\ IF updates[u].discussion
     THEN Raise(u, 500, IF updates[u].flashcard_id \in Rows(flashcard_discussions)
                        THEN {} ELSE {"discussion"})
     ELSE updates' = [updates EXCEPT ![u].pc = "final_card"]
  /\ UNCHANGED <<tables, update_frame>>

\* if payload.final_card is not None: fc = await session.get(...); the same
\* with question_audio and answer_audio
UpdateFinalCard(u) ==
  /\ updates[u].pc = "final_card"
  /\ IF updates[u].final_card
     THEN Raise(u, 500, IF updates[u].flashcard_id \in Rows(flashcard_final_cards)
                        THEN {} ELSE {"final_card"})
     ELSE updates' = [updates EXCEPT ![u].pc = "fsrs"]
  /\ UNCHANGED <<tables, update_frame>>

\* if payload.fsrs is not None: fs = await session.get(...). With a row its
\* attributes are assigned from the payload; without one
\* FlashcardFSRS(..., audio_id=...) raises (no such column), 500.
UpdateFsrs(u) ==
  /\ updates[u].pc = "fsrs"
  /\ IF updates[u].fsrs = NoFsrs
     THEN updates' = [updates EXCEPT ![u].pc = "commit"]
     ELSE IF updates[u].flashcard_id \notin Rows(flashcard_fsrs)
     THEN Raise(u, 500, {"fsrs"})
     ELSE updates' = [updates EXCEPT ![u].pc = "commit",
                                     ![u].fs = [due |-> replace_tzinfo_none(updates[u].fsrs.due),
                                                stability |-> updates[u].fsrs.stability]]
  /\ UNCHANGED <<tables, update_frame>>

\* await session.commit(): the attributes the session changed are written
\* together, or the commit raises (a row it updates is gone, the database
\* fails) and none is
UpdateCommit(u, ok) ==
  /\ updates[u].pc = "commit"
  /\ IF /\ ok
        /\ updates[u].flashcard_id \in Rows(flashcards)
        /\ updates[u].fs # NoFsrs => updates[u].flashcard_id \in Rows(flashcard_fsrs)
     THEN /\ flashcards' =
               [flashcards EXCEPT
                  ![updates[u].flashcard_id].deck_id =
                     IF updates[u].item.deck_id # None THEN updates[u].item.deck_id ELSE @,
                  ![updates[u].flashcard_id].stage =
                     IF updates[u].item.stage # NoStage THEN updates[u].item.stage ELSE @]
          /\ flashcard_fsrs' =
               IF updates[u].fs # NoFsrs
               THEN [flashcard_fsrs EXCEPT ![updates[u].flashcard_id] = updates[u].fs]
               ELSE flashcard_fsrs
          /\ updates' = [updates EXCEPT ![u].pc = "reload"]
     ELSE /\ Raise(u, 500, {})
          /\ UNCHANGED <<flashcards, flashcard_fsrs>>
  /\ UNCHANGED <<flashcard_decks, flashcard_discussions, flashcard_final_cards,
                 audio_files, study_sessions, update_frame>>

\* the select with the joinedloads, and the serialised card: 200
UpdateReload(u, ok) ==
  /\ updates[u].pc = "reload"
  /\ Raise(u, IF ok THEN 200 ELSE 500, {})
  /\ UNCHANGED <<tables, update_frame>>

(* ------------------------------------------------ audio (routes/audio.py) *)
\* the audio_files rows a section or a study session refers to
DiscussionRefs == {flashcard_discussions[c].audio_id : c \in Rows(flashcard_discussions)}
FinalCardRefs ==
  {flashcard_final_cards[c].question_audio_id : c \in Rows(flashcard_final_cards)}
    \cup {flashcard_final_cards[c].answer_audio_id : c \in Rows(flashcard_final_cards)}
SessionRefs ==
  ({study_sessions[k].question_audio_id : k \in Rows(study_sessions)}
     \cup {study_sessions[k].answer_audio_id : k \in Rows(study_sessions)}) \ {None}

\* POST /audio/files: a payload without filename is refused
create_audio(caller, filename) ==
  /\ Idle /\ last_id.audio < MaxAudio
  /\ IF caller = Anonymous
     THEN Unauthorized("create_audio") /\ UNCHANGED <<tables, last_id>>
     ELSE IF filename = Unset
     THEN /\ Respond("create_audio", 400, "filename is required and cannot be empty")
          /\ UNCHANGED <<tables, last_id>>
     ELSE /\ audio_files' = Insert(audio_files, last_id.audio + 1, [filename |-> filename])
          /\ last_id' = [last_id EXCEPT !.audio = @ + 1]
          /\ Respond("create_audio", 200, "")
          /\ UNCHANGED <<flashcard_decks, flashcards, flashcard_discussions,
                         flashcard_final_cards, flashcard_fsrs, study_sessions>>

\* PUT /audio/files/{id}: any row that exists, referenced or not
update_audio(caller, id, filename) ==
  /\ Idle
  /\ IF caller = Anonymous
     THEN Unauthorized("update_audio") /\ UNCHANGED tables
     ELSE IF id \notin Rows(audio_files)
     THEN Respond("update_audio", 404, "Audio file not found") /\ UNCHANGED tables
     ELSE /\ audio_files' = [audio_files EXCEPT ![id].filename = filename]
          /\ Respond("update_audio", 200, "")
          /\ UNCHANGED <<flashcard_decks, flashcards, flashcard_discussions,
                         flashcard_final_cards, flashcard_fsrs, study_sessions>>
  /\ UNCHANGED last_id

\* DELETE /audio/files/{id}: a row some audio_id column still names cannot be
\* deleted (foreign key without ON DELETE rule): IntegrityError, 500
delete_audio(caller, id) ==
  /\ Idle
  /\ IF caller = Anonymous
     THEN Unauthorized("delete_audio") /\ UNCHANGED tables
     ELSE IF id \notin Rows(audio_files)
     THEN Respond("delete_audio", 404, "Audio file not found") /\ UNCHANGED tables
     ELSE IF id \in DiscussionRefs \cup FinalCardRefs \cup SessionRefs
     THEN InternalError("delete_audio") /\ UNCHANGED tables
     ELSE /\ audio_files' = Delete(audio_files, {id})
          /\ Respond("delete_audio", 200, "")
          /\ UNCHANGED <<flashcard_decks, flashcards, flashcard_discussions,
                         flashcard_final_cards, flashcard_fsrs, study_sessions>>
  /\ UNCHANGED last_id

\* the foreign keys of a study_sessions row name rows that exist, or are NULL
SessionKeysOk(row) ==
  /\ row.deck_id = None \/ row.deck_id \in Rows(flashcard_decks)
  /\ row.question_audio_id = None \/ row.question_audio_id \in Rows(audio_files)
  /\ row.answer_audio_id = None \/ row.answer_audio_id \in Rows(audio_files)

\* POST /audio/sessions: the row is built from the payload as it comes; a
\* primary key already stored or a foreign key naming no row: IntegrityError
create_session(caller, id, row) ==
  /\ Idle
  /\ IF caller = Anonymous
     THEN Unauthorized("create_session") /\ UNCHANGED tables
     ELSE IF id \in Rows(study_sessions) \/ ~SessionKeysOk(row)
     THEN InternalError("create_session") /\ UNCHANGED tables
     ELSE /\ study_sessions' = Insert(study_sessions, id, row)
          /\ Respond("create_session", 200, "")
          /\ UNCHANGED <<flashcard_decks, flashcards, flashcard_discussions,
                         flashcard_final_cards, flashcard_fsrs, audio_files>>
  /\ UNCHANGED last_id

\* PUT /audio/sessions/{id}: setattr(r, k, v) for every key of the payload
update_session(caller, id, row) ==
  /\ Idle
  /\ IF caller = Anonymous
     THEN Unauthorized("update_session") /\ UNCHANGED tables
     ELSE IF id \notin Rows(study_sessions)
     THEN Respond("update_session", 404, "Study session not found") /\ UNCHANGED tables
     ELSE IF ~SessionKeysOk(row)
     THEN InternalError("update_session") /\ UNCHANGED tables
     ELSE /\ study_sessions' = [study_sessions EXCEPT ![id] = row]
          /\ Respond("update_session", 200, "")
          /\ UNCHANGED <<flashcard_decks, flashcards, flashcard_discussions,
                         flashcard_final_cards, flashcard_fsrs, audio_files>>
  /\ UNCHANGED last_id

\* DELETE /audio/sessions/{id}
delete_session(caller, id) ==
  /\ Idle
  /\ IF caller = Anonymous
     THEN Unauthorized("delete_session") /\ UNCHANGED tables
     ELSE IF id \notin Rows(study_sessions)
     THEN Respond("delete_session", 404, "Study session not found") /\ UNCHANGED tables
     ELSE /\ study_sessions' = Delete(study_sessions, {id})
          /\ Respond("delete_session", 200, "")
          /\ UNCHANGED <<flashcard_decks, flashcards, flashcard_discussions,
                         flashcard_final_cards, flashcard_fsrs, audio_files>>
  /\ UNCHANGED last_id

\* the rows a study-session payload can hold; the sessions here name no deck
SessionRows ==
  [deck_id : {None}, question_audio_id : AudioIds \cup {None},
   answer_audio_id : AudioIds \cup {None}]

(* --------------------------- dispatch (middleware/rate_limiter.py:46-65) *)
\* a request arrives: an exempt path goes straight to call_next; else, under
\* the lock, count = self.cache.get(key, 0) + 1; self.cache[key] = count
dispatch(r, key, path) ==
  /\ rl_pc[r] = "done"
  /\ rl_resp' = [rl_resp EXCEPT ![r] = NoRlResp]
  /\ IF path \in exempt_paths
     THEN /\ rl_pc' = [rl_pc EXCEPT ![r] = "call_next"]
          /\ rl_req' = [rl_req EXCEPT ![r] = [key |-> key, count |-> 0]]
          /\ UNCHANGED <<cache, recent, window_start, last_request>>
     ELSE LET count == get(cache, key, 0, timer) + 1
          IN /\ count <= MaxCount
             /\ cache' = setitem(cache, key, count, timer)
             /\ rl_pc' = [rl_pc EXCEPT ![r] = "counted"]
             /\ rl_req' = [rl_req EXCEPT ![r] = [key |-> key, count |-> count]]
             /\ recent' = IF Limited(count) THEN recent
                          ELSE [recent EXCEPT ![key] = Append(@, timer)]
             /\ window_start' = IF count = 1 THEN [window_start EXCEPT ![key] = timer]
                                ELSE window_start
             /\ last_request' = [last_request EXCEPT ![key] = timer]
  /\ UNCHANGED <<timer, auth_vars, card_vars>>

\* count > self.max_requests: 429 "Rate limit exceeded" with Retry-After;
\* else the request goes on to call_next
decide(r) ==
  /\ rl_pc[r] = "counted"
  /\ IF Limited(rl_req[r].count)
     THEN /\ rl_pc' = [rl_pc EXCEPT ![r] = "done"]
          /\ rl_resp' = [rl_resp EXCEPT ![r] = RateLimitExceeded]
          /\ rl_req' = [rl_req EXCEPT ![r] = NoRlReq]
     ELSE /\ rl_pc' = [rl_pc EXCEPT ![r] = "call_next"]
          /\ UNCHANGED <<rl_resp, rl_req>>
  /\ UNCHANGED <<timer, cache, recent, window_start, last_request, auth_vars, card_vars>>

\* response = await call_next(request); return response
call_next(r) ==
  /\ rl_pc[r] = "call_next"
  /\ rl_pc' = [rl_pc EXCEPT ![r] = "done"]
  /\ rl_resp' = [rl_resp EXCEPT ![r] = Pong]
  /\ rl_req' = [rl_req EXCEPT ![r] = NoRlReq]
  /\ UNCHANGED <<timer, cache, recent, window_start, last_request, auth_vars, card_vars>>

\* a second passes on the monotonic clock; the history forgets what is a
\* window old
TimerTick ==
  /\ timer < MaxTimer
  /\ timer' = timer + 1
  /\ recent' = [k \in Keys |-> SelectSeq(recent[k], LAMBDA t : timer' - window < t)]
  /\ UNCHANGED <<cache, rl_pc, rl_req, rl_resp, window_start, last_request,
                 auth_vars, card_vars>>

(* ------------------------------------------------------------------- next *)
\* the steps of request slot p: a new request arrives, or the one running
\* goes on from its await
Handler(p) ==
  \/ Cancel(p)
  \/ \E u \in Users : LoginRequest(p, u)
  \/ \E user \in AuthenticateResults : LoginAuthenticate(p, user)
  \/ LoginBackendLogin(p)
  \/ LoginCommit(p)
  \/ \E raw \in RawTokens \cup {NoToken} : RefreshRequest(p, raw)
  \/ RefreshFind(p)
  \/ RefreshGetUser(p)
  \/ RefreshBackendLogin(p)
  \/ RefreshRevoke(p)
  \/ \E route \in Routes : RefreshCommit(p, route)
  \/ \E raw \in RawTokens \cup {NoToken} : LogoutRequest(p, raw)
  \/ LogoutFind(p)
  \/ LogoutRevoke(p)
  \/ LogoutCommit(p)

\* concurrent requests, interleaved at every await, within the lifetime of
\* the tokens (the clock stands still)
Next == \E p \in Procs : Handler(p)

Spec == Init /\ [][Next]_vars

\* one request at a time while time passes
NextClock == Tick \/ Handler(1)

SpecClock == Init /\ [][NextClock]_vars

\* one client, one request at a time: it presents to refresh the token it
\* holds (the one of the last body, or its cookie) and to logout its cookie
Client ==
  \/ Tick
  \/ Cancel(1)
  \/ \E u \in Users : LoginRequest(1, u)
  \/ \E user \in AuthenticateResults : LoginAuthenticate(1, user)
  \/ LoginBackendLogin(1)
  \/ LoginCommit(1)
  \/ \E raw \in {body_token, cookie_jar} \ {NoToken} : RefreshRequest(1, raw)
  \/ RefreshFind(1)
  \/ RefreshGetUser(1)
  \/ RefreshBackendLogin(1)
  \/ RefreshRevoke(1)
  \/ \E route \in Routes : RefreshCommit(1, route)
  \/ LogoutRequest(1, cookie_jar)
  \/ LogoutFind(1)
  \/ LogoutRevoke(1)
  \/ LogoutCommit(1)

SpecClient == Init /\ [][Client]_vars

\* concurrent requests through the rate limiter while time passes
NextLimiter ==
  \/ TimerTick
  \/ \E r \in Requests :
       \/ \E key \in Keys, path \in Paths : dispatch(r, key, path)
       \/ decide(r)
       \/ call_next(r)

SpecLimiter == Init /\ [][NextLimiter]_vars

\* one request at a time, of two accounts (users.id values)
NextUsers == Handler(1) \/ \E u \in Owners : LoginRequest(1, u)

SpecUsers == Init /\ [][NextUsers]_vars

\* a request to routes/decks.py is served
Decks ==
  \/ \E caller \in Callers, name \in Texts : create_deck(caller, name)
  \/ \E caller \in Callers, deck_id \in DeckIds, name \in Texts \cup {Unset} :
       update_deck(caller, deck_id, name)
  \/ \E caller \in Callers, deck_id \in DeckIds : delete_deck(caller, deck_id)

\* a create_flashcard call goes on from an await
CreateSteps ==
  \/ \E ok \in BOOLEAN : CreateFlushCard(ok)
  \/ \E ok \in BOOLEAN : CreateDiscussion(ok)
  \/ \E ok \in BOOLEAN : CreateFinalCard(ok)
  \/ \E ok \in BOOLEAN : CreateCommit(ok)
  \/ \E ok \in BOOLEAN : CreateReload(ok)

\* a request to routes/flashcards.py or the fsrs routes arrives. A request
\* that is refused for its first field is sent with one value of the others,
\* which are not read: a create that names no stored deck, an update that
\* names no stored card, an update with a discussion or a final_card.
Flashcards ==
  \/ \E deck_id \in DeckIds :
       \E stage \in (IF deck_id \in Rows(flashcard_decks) THEN Stages ELSE {0}),
          discussion, final_card \in
            (IF deck_id \in Rows(flashcard_decks) THEN BOOLEAN ELSE {FALSE}),
          fsrs \in (IF deck_id \in Rows(flashcard_decks)
                    THEN FsrsPayloads \cup {NoFsrs} ELSE {NoFsrs}),
          value \in (IF deck_id \in Rows(flashcard_decks) THEN Texts ELSE {"a"}) :
         create_flashcard(deck_id, stage, discussion, final_card, fsrs, value)
  \/ \E flashcard_id \in CardIds :
       \E deck_id \in (IF flashcard_id \in Rows(flashcards)
                       THEN DeckIds \cup {None} ELSE {None}),
          stage \in (IF flashcard_id \in Rows(flashcards)
                     THEN Stages \cup {NoStage} ELSE {NoStage}),
          discussion, final_card \in
            (IF flashcard_id \in Rows(flashcards) THEN BOOLEAN ELSE {FALSE}) :
         \E fsrs \in (IF flashcard_id \in Rows(flashcards) /\ ~discussion /\ ~final_card
                       THEN FsrsPayloads \cup {NoFsrs} ELSE {NoFsrs}),
            ok \in (IF flashcard_id \in Rows(flashcards) /\ ~discussion /\ ~final_card
                     THEN BOOLEAN ELSE {TRUE}) :
           update_flashcard(flashcard_id, deck_id, stage, discussion, final_card, fsrs, ok)
  \/ \E flashcard_id \in CardIds : delete_flashcard(flashcard_id)
  \/ \E route \in FsrsRoutes, flashcard_id \in CardIds, fsrs \in FsrsUpdates :
       update_fsrs(route, flashcard_id, fsrs)

\* routes/audio.py asks for an active user and no more: one account stands
\* for all
AudioCallers == {"u1", Anonymous}

\* a request to routes/audio.py is served
Audio ==
  \/ \E caller \in AudioCallers, filename \in Texts \cup {Unset} : create_audio(caller, filename)
  \/ \E caller \in AudioCallers, id \in AudioIds, filename \in Texts :
       update_audio(caller, id, filename)
  \/ \E caller \in AudioCallers, id \in AudioIds : delete_audio(caller, id)
  \/ \E caller \in AudioCallers, id \in SessionIds, row \in SessionRows :
       create_session(caller, id, row)
  \/ \E caller \in AudioCallers, id \in SessionIds, row \in SessionRows :
       update_session(caller, id, row)
  \/ \E caller \in AudioCallers, id \in SessionIds : delete_session(caller, id)

\* deck and flashcard requests, one at a time
NextCards == Decks \/ Flashcards \/ CreateSteps

SpecCards == Init /\ [][NextCards]_vars

\* audio-file and study-session requests, one at a time, beside the creation
\* and deletion of flashcards with all their fields "a" in decks of one owner
NextAudio ==
  \/ create_deck("u1", "a")
  \/ \E deck_id \in DeckIds, discussion, final_card \in BOOLEAN :
       create_flashcard(deck_id, 0, discussion, final_card,
                        [due |-> [t |-> "a", tzinfo |-> "utc"], stability |-> 1], "a")
  \/ CreateSteps
  \/ \E flashcard_id \in CardIds : delete_flashcard(flashcard_id)
  \/ Audio

SpecAudio == Init /\ [][NextAudio]_vars

\* an update_flashcard call goes on from an await
UpdateSteps(u) ==
  \/ UpdateGet(u)
  \/ UpdateDeck(u)
  \/ UpdateDiscussion(u)
  \/ UpdateFinalCard(u)
  \/ UpdateFsrs(u)
  \/ \E ok \in BOOLEAN : UpdateCommit(u, ok)
  \/ \E ok \in BOOLEAN : UpdateReload(u, ok)

\* two update_flashcard calls that set the stage to 1 run side by side,
\* beside the creation of a deck and of a card at stage 0
NextUpdates ==
  \/ create_deck("u1", "a")
  \/ \E discussion, final_card \in BOOLEAN,
        fsrs \in {NoFsrs, [due |-> [t |-> "b", tzinfo |-> "none"], stability |-> 1]} :
       create_flashcard(1, 0, discussion, final_card, fsrs, "a")
  \/ CreateSteps
  \/ \E u \in Updaters, flashcard_id \in CardIds, deck_id \in {None, MaxDecks},
        discussion, final_card \in BOOLEAN,
        fsrs \in {NoFsrs, [due |-> [t |-> "a", tzinfo |-> "utc"], stability |-> None]} :
       UpdateRequest(u, flashcard_id, deck_id, 1, discussion, final_card, fsrs)
  \/ \E u \in Updaters : UpdateSteps(u)

SpecUpdates == Init /\ [][NextUpdates]_vars

TypeOK ==
  /\ \A u \in Updaters :
       /\ updates[u].pc \in {"done", "get", "deck", "discussion", "final_card", "fsrs",
                              "commit", "reload"}
       /\ updates[u].absent \subseteq Sections
       /\ updates[u].status \in {0, 200, 404, 500}
  /\ now \in 0..MaxNow
  /\ Len(parent) = Len(refresh_tokens)
  /\ \A i \in RowIds(refresh_tokens) : parent[i] \in 0..(i - 1)

(* ------------------------------------------------- vocabulary of the claims *)
\* request p takes a step
Acts(p) == pc'[p] # pc[p] \/ req'[p] # req[p] \/ resp'[p] # resp[p]

\* request p is answered on this step (it is not cancelled)
Answered(p) == Acts(p) /\ pc'[p] = "done" /\ resp'[p].detail # "cancelled"

\* the stored rows holding the hash of raw (at most one: token_hash is unique)
RowsOf(table, raw) == {i \in RowIds(table) : table[i].token_hash = Hash(raw)}

\* the raw refresh token a response hands to the client, in its body or cookie
Handed(r) == IF r.cookie = "set" THEN r.cookie_value ELSE r.refresh_token

\* valid in the data model's sense: not revoked and expires_at > now
Valid(table, i, t) == ~table[i].revoked /\ table[i].expires_at > t

\* every row but those of ids is as it was
OthersUnchanged(ids) ==
  \A i \in RowIds(refresh_tokens) \ ids : refresh_tokens'[i] = refresh_tokens[i]

\* the login row a row descends from
RECURSIVE Root(_)
Root(i) == IF parent[i] = 0 THEN i ELSE Root(parent[i])

Chain(root) == {i \in RowIds(refresh_tokens) : Root(i) = root}
Roots == {i \in RowIds(refresh_tokens) : parent[i] = 0}

\* some token of the chain was rotated by more than one refresh call
Forked(root) ==
  \E i, j \in Chain(root) : i # j /\ parent[i] # 0 /\ parent[i] = parent[j]

ValidIn(root) == {i \in Chain(root) : Valid(refresh_tokens, i, now)}

(* --------------------------------------------------------------------- C1 *)
\* C1: each successful refresh revokes exactly the row it was given and
\* inserts exactly one new row, non-revoked and unexpired, whose raw token it
\* hands to the client and which a lookup then accepts; a refresh whose lookup
\* meets a revoked token fails and changes nothing.
C1_RotationStep ==
  [][\A p \in Procs :
       /\ (req[p].op = "refresh" /\ Answered(p) /\ resp'[p].status = 200) =>
            LET old == req[p].rt
                new == Len(refresh_tokens) + 1
                raw == Handed(resp'[p])
            IN /\ Len(refresh_tokens') = new
               /\ refresh_tokens'[old] = [refresh_tokens[old] EXCEPT !.revoked = TRUE]
               /\ OthersUnchanged({old})
               /\ ~refresh_tokens'[new].revoked
               /\ ~IsExpired(refresh_tokens'[new], now') /\ refresh_tokens'[new].expires_at > now'
               /\ raw \in RawTokens
               /\ RowsOf(refresh_tokens', raw) = {new}
       /\ (/\ req[p].op = "refresh" /\ pc[p] = "find" /\ Acts(p)
           /\ \E i \in RowsOf(refresh_tokens, req[p].refresh_token) : refresh_tokens[i].revoked)
            => /\ pc'[p] = "done"
               /\ resp'[p].status # 200
               /\ resp'[p].detail \in {"Invalid refresh token", "cancelled"}
               /\ refresh_tokens' = refresh_tokens
  ]_vars

\* R1 -> R2 -> R3 by two refreshes, a replay of a rotated token was refused
\* in between, and R3 is the one non-revoked token left
C1_Witness ==
  /\ Len(refresh_tokens) = 3
  /\ parent = <<0, 1, 2>>
  /\ refresh_tokens[1].revoked /\ refresh_tokens[2].revoked /\ ~refresh_tokens[3].revoked
  /\ resp[1].op = "refresh" /\ resp[1].status = 200
  /\ RowsOf(refresh_tokens, Handed(resp[1])) = {3}
  /\ resp[2] = HTTPException("refresh", 401, "Invalid refresh token")

(* --------------------------------------------------------------------- C2 *)
\* C2 as stated: in every reachable state each chain has at most one valid token
C2_AtMostOneValidPerChain ==
  \A root \in Roots : Cardinality(ValidIn(root)) <= 1

\* C2 amended: a chain no token of which was rotated by more than one refresh
\* call has at most one valid token, whatever else interleaves
C2_AtMostOneValidUnlessForked ==
  \A root \in Roots : ~Forked(root) => Cardinality(ValidIn(root)) <= 1

\* a chain rotated twice, not forked, while another refresh of it is in flight
C2_Witness ==
  /\ Len(refresh_tokens) = 3
  /\ parent = <<0, 1, 2>>
  /\ ValidIn(1) = {3}
  /\ \E p \in Procs : req[p].op = "refresh" /\ pc[p] = "commit" /\ req[p].rt = 3

(* --------------------------------------------------------------------- C3 *)
\* C3: every step of a refresh request either leaves the table as it is, or
\* revokes the presented row and inserts its successor together; so no row
\* ever has a successor without being revoked.
C3_AllOrNothing ==
  [][\A p \in Procs :
       (req[p].op = "refresh" /\ Acts(p)) =>
          \/ refresh_tokens' = refresh_tokens /\ parent' = parent
          \/ /\ Len(refresh_tokens') = Len(refresh_tokens) + 1
             /\ refresh_tokens'[req[p].rt].revoked
             /\ parent' = Append(parent, req[p].rt)
             /\ OthersUnchanged({req[p].rt})
  ]_vars

\* an insert was refused at commit after the revoke statement had run: the
\* presented token (the only row) is still not revoked and has no successor
C3_Witness ==
  /\ Len(refresh_tokens) = 1
  /\ ~refresh_tokens[1].revoked
  /\ \E p \in Procs : resp[p] = InternalServerError("refresh")

(* --------------------------------------------------------------------- C4 *)
\* C4: a refresh whose lookup meets a token with expires_at before now, revoked
\* or not, ends there without success and changes no row.
C4_ExpiredAlwaysFails ==
  [][\A p \in Procs :
       (/\ req[p].op = "refresh" /\ pc[p] = "find" /\ Acts(p)
        /\ \E i \in RowsOf(refresh_tokens, req[p].refresh_token) :
             refresh_tokens[i].expires_at < now)
         => /\ pc'[p] = "done"
            /\ resp'[p].status = 401 \/ resp'[p].detail = "cancelled"
            /\ Handed(resp'[p]) = NoToken
            /\ refresh_tokens' = refresh_tokens /\ parent' = parent
  ]_vars

\* a non-revoked token past its expires_at was presented and refused
C4_Witness ==
  \E p \in Procs :
    /\ lookup[p] = "expired"
    /\ resp[p] = HTTPException("refresh", 401, "Expired refresh token")
    /\ \E i \in RowIds(refresh_tokens) :
         ~refresh_tokens[i].revoked /\ refresh_tokens[i].expires_at < now

(* --------------------------------------------------------------------- C5 *)
\* C5: every answer of logout is the same acknowledgement with the cookie
\* cleared; a logout with no token, an unknown token or a revoked token (so a
\* second logout with the same token) changes no row, and a logout changes at
\* most the revoked flag of the row it found.
C5_LogoutNeverErrors ==
  [][\A p \in Procs :
       /\ (Answered(p) /\ resp'[p].op = "logout") =>
             /\ resp'[p] = LoggedOut
             /\ resp'[p].status = 200 /\ resp'[p].cookie = "deleted"
       /\ ((req[p].op = "logout" \/ resp'[p].op = "logout") /\ Acts(p)) =>
             IF req[p].rt = None \/ refresh_tokens[req[p].rt].revoked
             THEN refresh_tokens' = refresh_tokens
             ELSE /\ OthersUnchanged({req[p].rt})
                  /\ Len(refresh_tokens') = Len(refresh_tokens)
       /\ (req[p].op = "logout" /\ pc[p] = "find" /\ Acts(p)
           /\ find_refresh(refresh_tokens, req[p].refresh_token) = None) => pc'[p] = "done"
  ]_vars

\* the only token was logged out by one request and presented to logout again
\* by the other, which met it revoked and acknowledged all the same
C5_Witness ==
  /\ Len(refresh_tokens) = 1 /\ refresh_tokens[1].revoked
  /\ resp[1] = LoggedOut /\ lookup[1] = "live"
  /\ resp[2] = LoggedOut /\ lookup[2] = "revoked"

(* --------------------------------------------------------------------- C6 *)
\* C6: a refresh that is answered with anything but 200 changed no row; a
\* missing, unknown, revoked or expired token and a deleted user are answered
\* 401, an issuer that gives no access token is answered 500, and no refresh
\* succeeds without an access token.
C6_FailedRefreshChangesNothing ==
  [][\A p \in Procs :
       (Answered(p) /\ resp'[p].op = "refresh") =>
          /\ resp'[p].status = 200 => resp'[p].access_token = "jwt"
          /\ resp'[p].status # 200 =>
               /\ refresh_tokens' = refresh_tokens /\ parent' = parent
               /\ Handed(resp'[p]) = NoToken
          /\ pc[p] = "done" =>
               resp'[p].status = 401 /\ resp'[p].detail = "Missing refresh token"
          /\ pc[p] = "find" =>
               /\ resp'[p].status = 401
               /\ resp'[p].detail \in {"Invalid refresh token", "Expired refresh token"}
          /\ pc[p] = "get_user" =>
               resp'[p].status = 401 /\ resp'[p].detail = "User not found"
          /\ pc[p] = "backend_login" =>
               /\ resp'[p].status = 500
               /\ resp'[p].detail = "Unable to obtain access token from auth backend"
  ]_vars

\* the issuer gave no access token to a refresh of the only, live token: 500,
\* and the token is still not revoked and has no successor
C6_Witness ==
  /\ Len(refresh_tokens) = 1 /\ ~refresh_tokens[1].revoked
  /\ \E p \in Procs :
       /\ lookup[p] = "live"
       /\ resp[p] = HTTPException("refresh", 500, "Unable to obtain access token from auth backend")

(* --------------------------------------------------------------------- C7 *)
\* C7: a login for which the issuer yielded no access token is answered 5xx,
\* inserts no row and hands out no refresh token.
C7_LoginIssuerFailure ==
  [][\A p \in Procs :
       (req[p].op = "login" /\ pc[p] = "commit" /\ req[p].access_token = "none"
        /\ Answered(p))
         => /\ resp'[p].status >= 500
            /\ refresh_tokens' = refresh_tokens
            /\ Handed(resp'[p]) = NoToken
  ]_vars

(* --------------------------------------------------------------------- C8 *)
\* C8 as stated: a login the credential store answers with no user or an
\* inactive one is answered 401, inserts no row and sets no cookie
C8_LoginRejected401 ==
  [][\A p \in Procs, user \in {"none", "inactive"} :
       LoginAuthenticate(p, user)
         => /\ pc'[p] = "done"
            /\ resp'[p].status = 401
            /\ refresh_tokens' = refresh_tokens
            /\ resp'[p].cookie = "untouched" /\ Handed(resp'[p]) = NoToken
  ]_vars

\* C8 amended: such a login is answered 400 "Invalid credentials", inserts no
\* row and sets no cookie
C8_LoginRejected400 ==
  [][\A p \in Procs, user \in {"none", "inactive"} :
       LoginAuthenticate(p, user)
         => /\ pc'[p] = "done"
            /\ resp'[p].status = 400 /\ resp'[p].detail = "Invalid credentials"
            /\ refresh_tokens' = refresh_tokens
            /\ resp'[p].cookie = "untouched" /\ Handed(resp'[p]) = NoToken
  ]_vars

\* a login was refused with nothing stored
C8_Witness ==
  /\ refresh_tokens = <<>>
  /\ \E p \in Procs : resp[p] = HTTPException("login", 400, "Invalid credentials")

(* --------------------------------------------------------------------- C9 *)
\* C9: the lookup's answer to a refresh: "expired" exactly when the stored row
\* is not revoked and its expires_at is before now; a revoked row, expired or
\* not, and an unknown token are answered "invalid".
C9_RevokedBeforeExpired ==
  [][\A p \in Procs :
       (req[p].op = "refresh" /\ pc[p] = "find" /\ Acts(p)
        /\ resp'[p].detail # "cancelled")
         => LET rows == RowsOf(refresh_tokens, req[p].refresh_token)
            IN /\ (rows = {} \/ \E i \in rows : refresh_tokens[i].revoked)
                    => pc'[p] = "done" /\ resp'[p].detail = "Invalid refresh token"
               /\ resp'[p].detail = "Expired refresh token"
                    <=> \E i \in rows : /\ ~refresh_tokens[i].revoked
                                        /\ refresh_tokens[i].expires_at < now
  ]_vars

\* a token both revoked and expired was presented and answered "invalid"
C9_Witness ==
  \E p \in Procs :
    /\ lookup[p] = "revoked_expired"
    /\ resp[p] = HTTPException("refresh", 401, "Invalid refresh token")

(* -------------------------------------------------------------------- C10 *)
\* C10: a lookup that meets no row and one that meets a revoked row get the
\* same answer, field for field: refresh the one 401, logout the one
\* acknowledgement; neither changes a row.
C10_WrongLikeRevoked ==
  [][\A p \in Procs :
       (pc[p] = "find" /\ Acts(p) /\ resp'[p].detail # "cancelled"
        /\ LET rows == RowsOf(refresh_tokens, req[p].refresh_token)
           IN rows = {} \/ \E i \in rows : refresh_tokens[i].revoked)
         => /\ pc'[p] = "done"
            /\ refresh_tokens' = refresh_tokens
            /\ req[p].op = "refresh" =>
                 resp'[p] = HTTPException("refresh", 401, "Invalid refresh token")
            /\ req[p].op = "logout" => resp'[p] = LoggedOut
  ]_vars

\* one request presented a token never issued, the other a revoked one, and
\* both hold the same response
C10_Witness ==
  /\ lookup[1] = "absent" /\ lookup[2] \in {"revoked", "revoked_expired"}
  /\ resp[1] = resp[2]
  /\ resp[1].op \in {"refresh", "logout"}

(* -------------------------------------------------------------------- C11 *)
\* C11: no step of login, refresh or logout removes a refresh-token row or
\* turns a revoked row back: the table only grows, every row keeps its
\* user, hash and dates, and revoked goes from false to true only.
C11_RowsOnlyGrow ==
  [][/\ Len(refresh_tokens') >= Len(refresh_tokens)
     /\ \A i \in RowIds(refresh_tokens) :
          /\ refresh_tokens'[i] = [refresh_tokens[i] EXCEPT
                                     !.revoked = refresh_tokens'[i].revoked]
          /\ refresh_tokens[i].revoked => refresh_tokens'[i].revoked
  ]_vars

\* a row was revoked by a logout, another by a rotation, and both are there
C11_Witness ==
  /\ Len(refresh_tokens) >= 3
  /\ \E i, j \in RowIds(refresh_tokens) :
       /\ i # j /\ refresh_tokens[i].revoked /\ refresh_tokens[j].revoked
       /\ \E k \in RowIds(refresh_tokens) : parent[k] = i
       /\ \A k \in RowIds(refresh_tokens) : parent[k] # j
  /\ \E p \in Procs : resp[p] = LoggedOut /\ lookup[p] = "live"

C13_NoDeckNoCard ==
  [][(Idle /\ (session'.pc = "flush_card" \/ response'.op = "create_flashcard"))
       => \A deck_id \in DeckIds \ Rows(flashcard_decks), stage \in Stages,
             d, f \in BOOLEAN, s \in FsrsPayloads \cup {NoFsrs}, value \in Texts :
            create_flashcard(deck_id, stage, d, f, s, value)
              => /\ response' = [op |-> "create_flashcard", status |-> 404,
                                 detail |-> "Deck not found"]
                 /\ session' = NoSession
                 /\ tables' = tables
  ]_vars

\* a deck is stored, a create named another one and was answered 404, and no
\* flashcard or audio file is stored
C13_Witness ==
  /\ Rows(flashcard_decks) # {}
  /\ response = [op |-> "create_flashcard", status |-> 404, detail |-> "Deck not found"]
  /\ Rows(flashcards) = {} /\ Rows(audio_files) = {}

(* -------------------------------------------------------------------- C14 *)
\* C14: while a create_flashcard call has not committed, none of the rows it
\* has flushed (its flashcard, its audio files, its sections) is in the
\* committed tables; and when the call fails at the flush of the card, of an
\* audio file, or at the final flush and commit of the sections, the tables
\* are left as they were, with none of those rows in them.
C14_CreateAllOrNothing ==
  [][(session.pc \in {"flush_card", "discussion", "final_card", "commit"})
       => /\ session.flashcard \notin Rows(flashcards)
                                    \cup Rows(flashcard_discussions)
                                    \cup Rows(flashcard_final_cards)
                                    \cup Rows(flashcard_fsrs)
          /\ StagedAudio(session) \cap Rows(audio_files) = {}
          /\ (session'.pc = "done" /\ response'.status = 500)
               => /\ tables' = tables
                  /\ session.flashcard \notin Rows(flashcards')
                                            \cup Rows(flashcard_discussions')
                                            \cup Rows(flashcard_final_cards')
                                            \cup Rows(flashcard_fsrs')
                  /\ StagedAudio(session) \cap Rows(audio_files') = {}
  ]_vars

\* a create failed at its commit, after its flashcard and its three audio
\* files were flushed, and no table holds a row
C14_Witness ==
  /\ response = [op |-> "create_flashcard", status |-> 500,
                 detail |-> "Internal Server Error"]
  /\ last_id.card = 1 /\ last_id.audio = 3
  /\ Rows(flashcards) = {} /\ Rows(audio_files) = {}
  /\ Rows(flashcard_discussions) = {} /\ Rows(flashcard_final_cards) = {}
  /\ Rows(flashcard_fsrs) = {}

(* -------------------------------------------------------------------- C15 *)
\* C15: an update or delete of a deck by a caller who is not its owner,
\* whether the deck is stored or not, is answered 403 and changes no table.
C15_NonOwnerForbidden ==
  [][\A caller \in Owners, deck_id \in DeckIds :
       ((\/ \E name \in Texts \cup {Unset} : update_deck(caller, deck_id, name)
         \/ delete_deck(caller, deck_id))
        /\ (deck_id \in Rows(flashcard_decks) => flashcard_decks[deck_id].owner_id # caller))
         => response'.status = 403 /\ tables' = tables
  ]_vars

(* -------------------------------------------------------------------- C16 *)
\* C16: after a delete_flashcard or delete_deck that succeeded, no section of
\* the deleted cards is stored, and neither is any audio file those sections
\* referred to.
C16_DeleteCascades ==
  [][\A gone \in SUBSET CardIds :
       ((\/ \E c \in CardIds : gone = {c} /\ delete_flashcard(c)
         \/ \E caller \in Owners, d \in DeckIds :
              gone = CardsOf(d) /\ delete_deck(caller, d))
        /\ response'.status = 204)
         => /\ gone \cap (Rows(flashcards') \cup Rows(flashcard_discussions')
                            \cup Rows(flashcard_final_cards') \cup Rows(flashcard_fsrs')) = {}
            /\ \A c \in gone \cap Rows(flashcard_discussions) :
                 flashcard_discussions[c].audio_id \notin Rows(audio_files')
            /\ \A c \in gone \cap Rows(flashcard_final_cards) :
                 /\ flashcard_final_cards[c].question_audio_id \notin Rows(audio_files')
                 /\ flashcard_final_cards[c].answer_audio_id \notin Rows(audio_files')
  ]_vars

(* -------------------------------------------------------------------- C17 *)
\* C17: an update_flashcard whose payload holds a stage and nothing else
\* sets the stage of the card and leaves its deck, its discussion, final_card
\* and fsrs rows, every audio file and every other card as they were.
C17_StageOnly ==
  [][(Idle /\ response'.op = "update_flashcard")
       => \A c \in Rows(flashcards), stage \in Stages, ok \in BOOLEAN :
            update_flashcard(c, None, stage, FALSE, FALSE, NoFsrs, ok)
              => /\ flashcards' = [flashcards EXCEPT ![c].stage = stage]
                 /\ flashcard_discussions' = flashcard_discussions
                 /\ flashcard_final_cards' = flashcard_final_cards
                 /\ flashcard_fsrs' = flashcard_fsrs
                 /\ audio_files' = audio_files
  ]_vars

\* a card with its three sections was updated and its stage is not the one
\* a new card gets by default
C17_Witness ==
  /\ response = [op |-> "update_flashcard", status |-> 200, detail |-> ""]
  /\ \E c \in Rows(flashcards) :
       /\ flashcards[c].stage = 1
       /\ c \in Rows(flashcard_discussions) /\ c \in Rows(flashcard_final_cards)
       /\ c \in Rows(flashcard_fsrs)

(* -------------------------------------------------------------------- C18 *)
\* C18: an update that supplies a section the card has no row for creates
\* the row: the fsrs section through PUT /flashcards/{id}/fsrs, and the
\* discussion, final_card and fsrs sections through update_flashcard.
C18_UpdateOfAbsentCreates ==
  [][\A c \in CardIds :
       c \in Rows(flashcards) =>
         /\ \A route \in FsrsRoutes, fsrs \in FsrsPayloads :
              (update_fsrs(route, c, fsrs) /\ c \notin Rows(flashcard_fsrs))
                => c \in Rows(flashcard_fsrs')
         /\ \A d, f, ok \in BOOLEAN, s \in FsrsPayloads \cup {NoFsrs} :
              update_flashcard(c, None, NoStage, d, f, s, ok)
                => /\ d => c \in Rows(flashcard_discussions')
                   /\ f => c \in Rows(flashcard_final_cards')
                   /\ s # NoFsrs => c \in Rows(flashcard_fsrs')
  ]_vars

(* -------------------------------------------------------------------- C19 *)
\* the rows that refer to audio file a: discussions, the two references of
\* final cards, the two references of study sessions
Referrers(a) ==
  {<<"discussion", c>> : c \in {k \in Rows(flashcard_discussions) :
                                  flashcard_discussions[k].audio_id = a}}
    \cup {<<"question", c>> : c \in {k \in Rows(flashcard_final_cards) :
                                       flashcard_final_cards[k].question_audio_id = a}}
    \cup {<<"answer", c>> : c \in {k \in Rows(flashcard_final_cards) :
                                     flashcard_final_cards[k].answer_audio_id = a}}
    \cup {<<"session_question", k>> : k \in {k \in Rows(study_sessions) :
                                              study_sessions[k].question_audio_id = a}}
    \cup {<<"session_answer", k>> : k \in {k \in Rows(study_sessions) :
                                            study_sessions[k].answer_audio_id = a}}

\* C19: no audio file is referred to by more than one reference of the
\* stored discussions, final cards and study sessions.
C19_OneReferrer ==
  \A a \in AudioIds : Cardinality(Referrers(a)) <= 1

(* -------------------------------------------------------------------- C20 *)
\* C20: every audio reference of a stored discussion or final card names a
\* stored audio file, and no request to the audio-file routes changes or
\* deletes an audio file such a section refers to.
C20_ReferencedAudioUntouched ==
  [][/\ DiscussionRefs \cup FinalCardRefs \subseteq Rows(audio_files)
     /\ \A caller \in AudioCallers, id \in DiscussionRefs \cup FinalCardRefs :
          ((\E filename \in Texts : update_audio(caller, id, filename))
           \/ delete_audio(caller, id))
            => id \in Rows(audio_files') /\ audio_files'[id] = audio_files[id]
  ]_vars

(* -------------------------------------------------------------------- C23 *)
\* C23: a refresh whose lookup meets a token that is not valid (revoked, or
\* expires_at not after now, so also expires_at equal to now) is refused.
C23_RefreshOnlyValid ==
  [][\A p \in Procs :
       (/\ req[p].op = "refresh" /\ pc[p] = "find" /\ Acts(p)
        /\ \E i \in RowsOf(refresh_tokens, req[p].refresh_token) :
             ~Valid(refresh_tokens, i, now))
         => /\ pc'[p] = "done"
            /\ resp'[p].status = 401 \/ resp'[p].detail = "cancelled"
  ]_vars

(* -------------------------------------------------------------------- C24 *)
\* C24: a refresh whose lookup runs when the row of its token is revoked (a
\* refresh or a logout of that token has committed) is answered 401 "Invalid
\* refresh token" and changes nothing; so every refresh that is past its
\* lookup met its row not revoked, and two refreshes that rotate the same row
\* both looked it up before either committed.
C24_LookupAfterCommitFails ==
  [][\A p \in Procs :
       /\ (/\ req[p].op = "refresh" /\ pc[p] = "find" /\ Acts(p)
           /\ \E i \in RowsOf(refresh_tokens, req[p].refresh_token) :
                refresh_tokens[i].revoked)
            => /\ pc'[p] = "done"
               /\ resp'[p] \in {HTTPException("refresh", 401, "Invalid refresh token"),
                                 Cancelled("refresh")}
               /\ refresh_tokens' = refresh_tokens /\ parent' = parent
       /\ (req'[p].op = "refresh" /\ pc'[p] \in {"get_user", "backend_login", "revoke", "commit"})
            => lookup'[p] = "live"
       /\ (Answered(p) /\ resp'[p].op = "refresh" /\ resp'[p].status = 200)
            => lookup[p] = "live"
  ]_vars

\* both requests were refreshes of the only login token, both met it live
\* and both succeeded: the row has two successors
C24_Witness ==
  /\ Len(refresh_tokens) = 3 /\ parent = <<0, 1, 1>>
  /\ \A p \in Procs :
       resp[p].op = "refresh" /\ resp[p].status = 200 /\ lookup[p] = "live"

(* -------------------------------------------------------------------- C25 *)
\* C25: a step of any request changes no stored row but by setting the
\* revoked flag of the row a refresh or logout presented and is committing;
\* a login changes no stored row at all; and a row a refresh inserts has the
\* user_id of the row it presented.
C25_OnlyPresentedRevoked ==
  [][/\ \A i \in RowIds(refresh_tokens) :
          \/ refresh_tokens'[i] = refresh_tokens[i]
          \/ /\ refresh_tokens'[i] = [refresh_tokens[i] EXCEPT !.revoked = TRUE]
             /\ \E p \in Procs :
                  /\ Acts(p) /\ pc[p] = "commit"
                  /\ req[p].op \in {"refresh", "logout"} /\ req[p].rt = i
     /\ \A p \in Procs :
          (req[p].op = "login" /\ Acts(p)) => OthersUnchanged({})
     /\ \A i \in RowIds(refresh_tokens') \ RowIds(refresh_tokens) :
          parent'[i] # 0 =>
            refresh_tokens'[i].user_id = refresh_tokens[parent'[i]].user_id
  ]_vars

\* one account's token was rotated and its successor logged out, and the
\* token of the other account is as its login stored it
C25_Witness ==
  /\ Len(refresh_tokens) = 3
  /\ \E i, j, k \in RowIds(refresh_tokens) :
       /\ parent[i] = 0 /\ parent[k] = i /\ parent[j] = 0 /\ i # j
       /\ refresh_tokens[i].revoked /\ refresh_tokens[k].revoked
       /\ refresh_tokens[i].user_id = refresh_tokens[k].user_id
       /\ refresh_tokens[j].user_id # refresh_tokens[i].user_id
       /\ ~refresh_tokens[j].revoked
  /\ resp[1] = LoggedOut

(* -------------------------------------------------------------------- C26 *)
\* C26: when the client's logout has been answered, no stored refresh token
\* of the client's logins is still one a refresh accepts (not revoked and not
\* expired).
C26_LogoutEndsChain ==
  resp[1] = LoggedOut =>
    \A i \in RowIds(refresh_tokens) :
      refresh_tokens[i].revoked \/ IsExpired(refresh_tokens[i], now)

(* -------------------------------------------------------------------- C22 *)
\* request r is counted for key on this step
Counted(r, key) ==
  rl_pc[r] = "done" /\ rl_pc'[r] = "counted" /\ rl_req'[r].key = key

C30_FixedWindow ==
  [][\A r \in Requests, key \in Keys :
       (/\ Counted(r, key)
        /\ window_start[key] # Never /\ window_start[key] + window <= timer)
         => ~Limited(rl_req'[r].count)
  ]_vars

(* -------------------------------------------------------------------- C27 *)
\* what a partial update makes of an fsrs row: the fields the payload holds
\* are set, the others are kept
PartialFsrs(row, fsrs) ==
  [due |-> IF fsrs.due # NoDue THEN replace_tzinfo_none(fsrs.due) ELSE row.due,
   stability |-> IF fsrs.stability # None THEN fsrs.stability ELSE row.stability]

\* C27: an update of a section whose row is stored succeeds, sets the fields
\* the payload holds and keeps the others: the fsrs row through PUT
\* /flashcards/{id}/fsrs and through update_flashcard, the discussion and
\* the final card through update_flashcard.
C27_PartialUpdate ==
  [][(Idle /\ response'.op \in {"update_fsrs", "update_flashcard"})
       => \A c \in Rows(flashcards) :
            /\ c \in Rows(flashcard_fsrs) =>
                 /\ \A route \in FsrsRoutes, fsrs \in FsrsUpdates :
                      update_fsrs(route, c, fsrs)
                        => /\ response'.status = 200
                           /\ flashcard_fsrs'[c] = PartialFsrs(flashcard_fsrs[c], fsrs)
                 /\ \A fsrs \in FsrsPayloads, ok \in BOOLEAN :
                      update_flashcard(c, None, NoStage, FALSE, FALSE, fsrs, ok)
                        => flashcard_fsrs'[c] = PartialFsrs(flashcard_fsrs[c], fsrs)
            /\ c \in Rows(flashcard_discussions) =>
                 (update_flashcard(c, None, NoStage, TRUE, FALSE, NoFsrs, TRUE)
                    => response'.status = 200)
            /\ c \in Rows(flashcard_final_cards) =>
                 (update_flashcard(c, None, NoStage, FALSE, TRUE, NoFsrs, TRUE)
                    => response'.status = 200)
  ]_vars

(* -------------------------------------------------------------------- C28 *)
\* C28: an update_flashcard that names a card that is not stored, or a new
\* deck that is not stored, is answered 404 and changes no table, whatever
\* else its payload holds.
C28_ChecksBeforeChanges ==
  \A c \in CardIds, deck_id \in DeckIds \cup {None} :
    (c \notin Rows(flashcards)
       \/ (deck_id # None /\ deck_id \notin Rows(flashcard_decks)))
      => \A stage \in Stages \cup {NoStage}, d, f, ok \in BOOLEAN,
            s \in FsrsPayloads \cup {NoFsrs} :
           ~ ENABLED (/\ update_flashcard(c, deck_id, stage, d, f, s, ok)
                      /\ ~ (/\ response'.status = 404
                            /\ response'.detail \in {"Flashcard not found", "Deck not found"}
                            /\ tables' = tables))

\* a stored card with its fsrs row was to be moved to a deck that is not
\* stored: 404, and the card is in the deck it was created in, at stage 0
C28_Witness ==
  /\ response = [op |-> "update_flashcard", status |-> 404, detail |-> "Deck not found"]
  /\ Rows(flashcard_decks) = {1}
  /\ \E c \in Rows(flashcards) :
       /\ flashcards[c] = [deck_id |-> 1, stage |-> 0]
       /\ c \in Rows(flashcard_fsrs)

SectionRows(table, c) == {k \in Rows(table) : k = c}

\* C21: each card has at most one discussion, one final card and one fsrs
\* row, also while two update_flashcard calls for it run side by side; a
\* call writes to the tables in its commit only, a call that found a section
\* of its payload absent has failed (500) and never gets to its commit, and
\* a call that ends in a failure before its commit has changed no table.
C21_OneSectionNoPartialWrite ==
  /\ [](\A c \in CardIds :
         /\ Cardinality(SectionRows(flashcard_discussions, c)) <= 1
         /\ Cardinality(SectionRows(flashcard_final_cards, c)) <= 1
         /\ Cardinality(SectionRows(flashcard_fsrs, c)) <= 1)
  /\ [](\A u \in Updaters :
         updates[u].absent # {} => updates[u].pc = "done" /\ updates[u].status = 500)
  /\ [][\A u \in Updaters :
          (updates'[u] # updates[u] /\ tables' # tables)
            => /\ updates[u].pc = "commit"
               /\ updates'[u].pc = "reload"
               /\ updates[u].absent = {}]_vars

\* two calls that set the stage to 1 have both found a section of the stored
\* card absent and were answered 500; the card is at the stage it was
\* created with and has no row of that section
C21_Witness ==
  /\ 1 \in Rows(flashcards)
  /\ flashcards[1].stage = 0
  /\ 1 \notin Rows(flashcard_fsrs)
  /\ \A u \in Updaters :
       updates[u] = [NoUpdate EXCEPT !.status = 500, !.absent = {"fsrs"}]

====
